---- MODULE Spec2Model ----
(***************************************************************************)
(* The real-time collaboration gateway (src/src/ws/server.ts) together     *)
(* with the REST session controller that broadcasts through it             *)
(* (src/src/server/controllers/auth.controller.ts).                        *)
(*                                                                         *)
(* Node runs every handler to its next `await` without interruption, so    *)
(* one action is one synchronous stretch of a handler.  A store call of    *)
(* the prisma client is two steps: the store executes it (Db... actions),  *)
(* and later the awaiting handler resumes with the result.                 *)
(***************************************************************************)
EXTENDS Naturals, Sequences, FiniteSets, TLC

(* ------------------------------ bounds -------------------------------- *)

\* frames accepted in one run of SpecRooms
MaxRoomCmds == 2

\* frames and REST requests accepted in one run of SpecLife
MaxLifeCmds == 1
MaxLifeRest == 1

\* REST requests accepted in one run of SpecRest
MaxRest == 3

\* frames accepted in one run of SpecDraw
MaxDrawCmds == 3

\* frames accepted in one run of SpecFanout
MaxFanoutCmds == 3

\* frames accepted in one run of Spec
MaxCmds == 2

\* frames accepted in one run of SpecChat
MaxChatCmds == 3

\* REST requests accepted in one run of SpecSlides
MaxSlideReqs == 3

\* REST requests and frames accepted in one run of SpecDelete
MaxDeleteReqs == 2
MaxDeleteCmds == 1

(* ---------------------------- the universe ---------------------------- *)

Sockets == {"a", "b"}

\* the identity authenticate() resolves for each socket's token
UserOf(sock) == IF sock = "a" THEN "u1" ELSE "u2"

Users == {"u1", "u2"}

\* null / undefined of an id
None == "none"

\* null / undefined of a record
Null == [null |-> TRUE]

\* session ids a frame or request may name; "s0" is in no store
SessionIds == {"s1", "s2", "s0"}

\* slide ids a frame may name; "p0" is in no store
SlideIds == {"p1", "p0"}

VARIABLES
    readyState,    \* socket -> "NEW" | "OPEN" | "CLOSED"
    clients,       \* keys of the WeakMap clients
    meta,          \* socket -> its ClientMeta object (shared by reference)
    rooms,         \* Map rooms: session id -> set of sockets
    chatMessages,  \* Map chatMessages: session id -> history
    sessions,      \* store table Session
    slides,        \* store table Slide
    strokes,       \* store table Stroke, in createdAt order
    tasks,         \* running handleMessage calls, by acceptance number
    reqs,          \* running REST requests, by arrival number
    inbox,         \* socket -> frames delivered to it, in order
    nextSeq,       \* acceptance number of the next frame
    frames,        \* the frames accepted so far, by acceptance number
    nextReq,       \* arrival number of the next REST request
    nextId,        \* next generated stroke id
    responses,     \* REST request -> HTTP status of its response
    handshake,     \* socket -> the token of its upgrade request, and the
                   \* code the gateway closed it with (0: not closed by it)
    legacy         \* the session of the in-memory server src/server.js

vars == <<readyState, clients, meta, rooms, chatMessages, sessions, slides,
          strokes, tasks, reqs, inbox, nextSeq, frames, nextReq, nextId, responses,
          handshake, legacy>>

(* ----------------------------- helpers -------------------------------- *)

\* the session object POST /sessions of src/server.js creates, as far as the
\* handlers of stroke, clear, chat_message and chat_enable use it; entries are
\* kept as the number they were accepted under, events counts the frames taken
NewLegacySession ==
    [strokes |-> <<>>, chatMessages |-> <<>>, chatEnabled |-> FALSE,
     strokeIds |-> 0, chatIds |-> 0, events |-> 0]

\* f without key k
Drop(f, k) == [x \in DOMAIN f \ {k} |-> f[x]]

\* f with key k set to v (Map.set)
Put(f, k, v) == [x \in DOMAIN f \cup {k} |-> IF x = k THEN v ELSE f[x]]

\* the records of s with the given session and slide, in the order of s
RECURSIVE SelectSeqBy(_, _, _)
SelectSeqBy(s, sid, pid) ==
    IF s = <<>> THEN <<>>
    ELSE IF Head(s).sessionId = sid /\ Head(s).slideId = pid
         THEN <<Head(s)>> \o SelectSeqBy(Tail(s), sid, pid)
         ELSE SelectSeqBy(Tail(s), sid, pid)

\* an outgoing frame; cmd is the acceptance number of the frame that caused
\* it (0 for a REST request), kept beside the payload for the ordering claims
Msg(type, sessionId, cmd, data) ==
    [type |-> type, sessionId |-> sessionId, cmd |-> cmd, data |-> data]

ErrorMsg(cmd, text) == Msg("ERROR", None, cmd, [message |-> text])

(* ------------------------ Room registry, sends ------------------------ *)

\* a send that does not look at the socket's state
sendAnyway(inb, sock, msg) == [inb EXCEPT ![sock] = Append(@, msg)]

\* WebSocketManager.send: a socket that is not open is skipped
send(inb, sock, msg) ==
    IF readyState[sock] # "OPEN" THEN inb
    ELSE [inb EXCEPT ![sock] = Append(@, msg)]

\* broadcast that forgets the excluded socket
broadcastToExcluded(inb, rms, sessionId, msg, exclude) ==
    IF sessionId \notin DOMAIN rms \/ rms[sessionId] = {} THEN inb
    ELSE [c \in Sockets |->
            IF c \in rms[sessionId] /\ readyState[c] = "OPEN"
            THEN Append(inb[c], msg)
            ELSE inb[c]]

\* a broadcast that puts its frame ahead of what socket b was sent before
broadcastJumpsQueue(inb, rms, sessionId, msg, exclude) ==
    IF sessionId \notin DOMAIN rms \/ rms[sessionId] = {} THEN inb
    ELSE [c \in Sockets |->
            IF c \in rms[sessionId] /\ c # exclude /\ readyState[c] = "OPEN"
            THEN IF c = "b" THEN <<msg>> \o inb[c] ELSE Append(inb[c], msg)
            ELSE inb[c]]

\* WebSocketManager.broadcast
broadcast(inb, rms, sessionId, msg, exclude) ==
    IF sessionId \notin DOMAIN rms \/ rms[sessionId] = {} THEN inb
    ELSE [c \in Sockets |->
            IF c \in rms[sessionId] /\ c # exclude /\ readyState[c] = "OPEN"
            THEN Append(inb[c], msg)
            ELSE inb[c]]

\* leaveRoom that forgets to detach the socket
leaveRoomKeeps(rms, cl, mt, sock) == rms

\* WebSocketManager.leaveRoom: the rooms map after the call
leaveRoom(rms, cl, mt, sock) ==
    IF sock \notin cl \/ mt[sock].sessionId = None THEN rms
    ELSE IF mt[sock].sessionId \notin DOMAIN rms THEN rms
    ELSE LET sid  == mt[sock].sessionId
             room == rms[sid] \ {sock}
         IN  IF room = {} THEN Drop(rms, sid) ELSE Put(rms, sid, room)

\* a subscribe that forgets to add the socket to the room
joinRoomForgets(rms, sessionId, sock) == rms

\* subscribe, lines 240-242: the rooms map with the socket added
joinRoom(rms, sessionId, sock) ==
    Put(rms, sessionId,
        (IF sessionId \in DOMAIN rms THEN rms[sessionId] ELSE {}) \cup {sock})

(* ------------------------------- store -------------------------------- *)

\* a lookup that answers with session s2 when the id names no session
findSessionOrOther(sessionId) ==
    IF sessionId \in DOMAIN sessions THEN sessions[sessionId] ELSE sessions["s2"]

\* prisma.session.findUnique
findSession(sessionId) ==
    IF sessionId \in DOMAIN sessions THEN sessions[sessionId] ELSE Null

\* prisma.slide.findUnique
findSlide(slideId) ==
    IF slideId \in DOMAIN slides THEN slides[slideId] ELSE Null

\* prisma.stroke.findMany({where: {sessionId, slideId}, orderBy: createdAt})
findStrokes(sessionId, slideId) == SelectSeqBy(strokes, sessionId, slideId)

(* -------------------------------- Init -------------------------------- *)

NewTask(seq, sock, type, sessionId, slideId, enabled, pc) ==
    [seq |-> seq, sock |-> sock, type |-> type, sessionId |-> sessionId,
     slideId |-> slideId, enabled |-> enabled, pc |-> pc,
     session |-> Null, slide |-> Null, snap |-> <<>>, created |-> Null]

\* the gateway right after construction, over a store whose sessions have
\* status st; updatedAt, which the store's client sets anew on every update of
\* the row, is kept as the number of updates the row has had
InitWith(st) ==
    /\ readyState = [s \in Sockets |-> "NEW"]
    /\ clients = {}
    /\ meta = [s \in Sockets |->
                 [userId |-> UserOf(s), isAdmin |-> FALSE, sessionId |-> None]]
    /\ rooms = <<>>
    /\ chatMessages = <<>>
    /\ sessions =
         [id \in {"s1", "s2"} |->
            [id |-> id,
             ownerId |-> IF id = "s1" THEN "u1" ELSE "u2",
             status |-> st,
             chatEnabled |-> TRUE,
             currentSlideId |-> IF id = "s1" THEN "p1" ELSE None,
             updatedAt |-> 0]]
    /\ slides = [id \in {"p1"} |-> [id |-> id, sessionId |-> "s1", order |-> 0]]
    /\ strokes = <<>>
    /\ tasks = <<>>
    /\ reqs = <<>>
    /\ inbox = [s \in Sockets |-> <<>>]
    /\ nextSeq = 1
    /\ frames = <<>>
    /\ nextReq = 1
    /\ nextId = 1
    /\ responses = <<>>
    /\ handshake = [s \in Sockets |-> [token |-> "valid", closeCode |-> 0]]
    /\ legacy = NewLegacySession

Init == InitWith("DRAFT")

\* the gateway starting over a store whose sessions are in any status
InitLife == \E st \in {"DRAFT", "LIVE", "ENDED"} : InitWith(st)

\* a presentation under way with its chat switched off: the owner a has
\* subscribed to s1 as admin and b as viewer, no command is in flight
InitChat ==
    /\ readyState = [s \in Sockets |-> "OPEN"]
    /\ clients = Sockets
    /\ meta = [s \in Sockets |->
                 [userId |-> UserOf(s), isAdmin |-> (s = "a"), sessionId |-> "s1"]]
    /\ rooms = [id \in {"s1"} |-> Sockets]
    /\ chatMessages = <<>>
    /\ sessions =
         [id \in {"s1", "s2"} |->
            [id |-> id,
             ownerId |-> IF id = "s1" THEN "u1" ELSE "u2",
             status |-> "LIVE",
             chatEnabled |-> FALSE,
             currentSlideId |-> IF id = "s1" THEN "p1" ELSE None,
             updatedAt |-> 0]]
    /\ slides = [id \in {"p1"} |-> [id |-> id, sessionId |-> "s1", order |-> 0]]
    /\ strokes = <<>>
    /\ tasks = <<>>
    /\ reqs = <<>>
    /\ inbox = [s \in Sockets |-> <<>>]
    /\ nextSeq = 1
    /\ frames = <<>>
    /\ nextReq = 1
    /\ nextId = 1
    /\ responses = <<>>
    /\ handshake = [s \in Sockets |-> [token |-> "valid", closeCode |-> 0]]
    /\ legacy = NewLegacySession

(* --------------------- connection, close, dispatch --------------------- *)

\* the close code of a refused upgrade
AuthCloseCode == 4401

\* the tokens an upgrade request may carry: one that verifies and names a
\* stored user, none at all, one whose signature does not verify, one that
\* verifies but carries no user id, one that names a user the store lacks
Tokens == {"valid", "absent", "forged", "anonymous", "orphan"}

\* authenticate that lets every upgrade request in
authenticateAnyone(sock, token) ==
    [userId |-> UserOf(sock), isAdmin |-> FALSE, sessionId |-> None]

\* authenticate that hands out the admin role
authenticateAsAdmin(sock, token) ==
    IF token # "valid" THEN Null
    ELSE [userId |-> UserOf(sock), isAdmin |-> TRUE, sessionId |-> None]

\* authenticate: the ClientMeta it resolves, or Null where it closes the
\* socket with 4401
authenticate(sock, token) ==
    IF token = "absent" THEN Null
    ELSE IF token = "forged" THEN Null
    ELSE IF token = "anonymous" THEN Null
    ELSE IF token = "orphan" THEN Null
    ELSE [userId |-> UserOf(sock), isAdmin |-> FALSE, sessionId |-> None]

\* handleConnection with a token authenticate() accepts: the socket is
\* registered with the fresh ClientMeta and its handlers are installed
HandleConnection(sock) ==
    /\ readyState[sock] = "NEW"
    /\ authenticate(sock, handshake[sock].token) # Null
    /\ readyState' = [readyState EXCEPT ![sock] = "OPEN"]
    /\ clients' = clients \cup {sock}
    /\ meta' = [meta EXCEPT ![sock] = authenticate(sock, handshake[sock].token)]
    /\ UNCHANGED <<legacy, handshake, rooms, chatMessages, sessions, slides, strokes,
                   tasks, reqs, inbox, nextSeq, frames, nextReq, nextId, responses>>

\* handleConnection with a token authenticate() refuses: the socket is closed
\* and handleConnection returns before clients.set and before any handler is
\* installed, so no frame of the socket is ever taken up
RejectConnection(sock) ==
    /\ readyState[sock] = "NEW"
    /\ authenticate(sock, handshake[sock].token) = Null
    /\ readyState' = [readyState EXCEPT ![sock] = "CLOSED"]
    /\ handshake' = [handshake EXCEPT ![sock].closeCode = AuthCloseCode]
    /\ UNCHANGED <<legacy, clients, meta, rooms, chatMessages, sessions, slides,
                   strokes, tasks, reqs, inbox, nextSeq, frames, nextReq, nextId,
                   responses>>

\* the socket's 'close' handler, after the peer closed the connection
Close(sock) ==
    /\ readyState[sock] = "OPEN"
    /\ readyState' = [readyState EXCEPT ![sock] = "CLOSED"]
    /\ rooms' = leaveRoom(rooms, clients, meta, sock)
    /\ clients' = clients \ {sock}
    /\ UNCHANGED <<legacy, handshake, meta, chatMessages, sessions, slides, strokes,
                   tasks, reqs, inbox, nextSeq, frames, nextReq, nextId, responses>>

\* what is recorded of an accepted frame: the frame, and the sender's role and
\* room when handleMessage took it up
Frame(sock, type, sessionId, slideId, enabled) ==
    [sock |-> sock, type |-> type, sessionId |-> sessionId, slideId |-> slideId,
     enabled |-> enabled, isAdmin |-> meta[sock].isAdmin,
     joined |-> meta[sock].sessionId]

\* a frame can arrive: the socket is open, its message handler is installed
CanReceive(sock) ==
    /\ readyState[sock] = "OPEN"
    /\ sock \in clients

\* handleMessage for SUBSCRIBE / SUBSCRIBE_ADMIN, up to the first await
ReceiveSubscribe(sock, roomId, asAdmin) ==
    /\ CanReceive(sock)
    /\ tasks' = Put(tasks, nextSeq,
                    NewTask(nextSeq, sock,
                            IF asAdmin THEN "SUBSCRIBE_ADMIN" ELSE "SUBSCRIBE",
                            roomId, None, FALSE, "sub_find"))
    /\ nextSeq' = nextSeq + 1
    /\ frames' = Put(frames, nextSeq, Frame(sock, IF asAdmin THEN "SUBSCRIBE_ADMIN" ELSE "SUBSCRIBE",
                                        roomId, None, FALSE))
    /\ UNCHANGED <<legacy, handshake, readyState, clients, meta, rooms, chatMessages, sessions,
                   slides, strokes, reqs, inbox, nextReq, nextId, responses>>

(* ------------------------------ subscribe ------------------------------ *)

\* the store answers subscribe's session.findUnique (line 220)
DbSubscribeFindSession(k) ==
    /\ k \in DOMAIN tasks
    /\ tasks[k].pc = "sub_find"
    /\ tasks' = [tasks EXCEPT ![k].pc = "sub_found",
                              ![k].session = findSession(tasks[k].sessionId)]
    /\ UNCHANGED <<legacy, handshake, readyState, clients, meta, rooms, chatMessages, sessions,
                   slides, strokes, reqs, inbox, nextSeq, frames, nextReq, nextId, responses>>

\* subscribe announcing SESSION_STARTED for every session that is no draft
subscribeRepliesStarted(inb, t, mt, snap) ==
    LET s    == t.session
        hist == IF t.sessionId \in DOMAIN chatMessages
                THEN chatMessages[t.sessionId] ELSE <<>>
        i1   == send(inb, t.sock,
                     Msg("SUBSCRIBED", s.id, t.seq,
                         [isAdmin |-> mt[t.sock].isAdmin,
                          status |-> s.status,
                          chatEnabled |-> s.chatEnabled,
                          currentSlideId |-> s.currentSlideId,
                          strokes |-> snap,
                          chatMessages |-> hist]))
    IN  IF s.status # "DRAFT"
        THEN send(i1, t.sock, Msg("SESSION_STARTED", s.id, t.seq, Null))
        ELSE i1

\* the SUBSCRIBED frame and the lifecycle frame that follows it (253-287)
subscribeReplies(inb, t, mt, snap) ==
    LET s    == t.session
        hist == IF t.sessionId \in DOMAIN chatMessages
                THEN chatMessages[t.sessionId] ELSE <<>>
        i1   == send(inb, t.sock,
                     Msg("SUBSCRIBED", s.id, t.seq,
                         [isAdmin |-> mt[t.sock].isAdmin,
                          status |-> s.status,
                          chatEnabled |-> s.chatEnabled,
                          currentSlideId |-> s.currentSlideId,
                          strokes |-> snap,
                          chatMessages |-> hist]))
        i2   == IF s.status = "LIVE"
                THEN send(i1, t.sock, Msg("SESSION_STARTED", s.id, t.seq, Null))
                ELSE i1
    IN  IF s.status = "ENDED"
        THEN send(i2, t.sock, Msg("SESSION_ENDED", s.id, t.seq, Null))
        ELSE i2

\* subscribe without its ownership check
adminDeniedNever(t, session) == FALSE

\* an ownership check turned round: it refuses the owner and admits the rest
adminDeniedInverted(t, session) ==
    t.type = "SUBSCRIBE_ADMIN" /\ session.ownerId = meta[t.sock].userId

\* is the caller allowed the role it asks for (line 230)
adminDenied(t, session) ==
    t.type = "SUBSCRIBE_ADMIN" /\ session.ownerId # meta[t.sock].userId

\* subscribe resumes after findUnique: lines 225-249
SubscribeJoin(k) ==
    /\ k \in DOMAIN tasks
    /\ tasks[k].pc = "sub_found"
    /\ LET t == tasks[k] IN
       IF t.session = Null THEN
           /\ inbox' = send(inbox, t.sock, ErrorMsg(t.seq, "Session not found"))
           /\ tasks' = Drop(tasks, k)
           /\ UNCHANGED <<meta, rooms>>
       ELSE IF adminDenied(t, t.session) THEN
           /\ inbox' = send(inbox, t.sock, ErrorMsg(t.seq, "Admin access denied"))
           /\ tasks' = Drop(tasks, k)
           /\ UNCHANGED <<meta, rooms>>
       ELSE
           /\ meta' = [meta EXCEPT ![t.sock].sessionId = t.sessionId,
                                   ![t.sock].isAdmin = (t.type = "SUBSCRIBE_ADMIN")]
           /\ rooms' = joinRoom(leaveRoom(rooms, clients, meta, t.sock),
                                t.sessionId, t.sock)
           /\ IF t.session.currentSlideId # None
              THEN /\ tasks' = [tasks EXCEPT ![k].pc = "sub_strokes"]
                   /\ UNCHANGED inbox
              ELSE /\ inbox' = subscribeReplies(inbox, t, meta', <<>>)
                   /\ tasks' = Drop(tasks, k)
    /\ UNCHANGED <<legacy, handshake, readyState, clients, chatMessages, sessions, slides,
                   strokes, reqs, nextSeq, frames, nextReq, nextId, responses>>

\* the store answers subscribe's stroke.findMany (line 245)
DbSubscribeFindStrokes(k) ==
    /\ k \in DOMAIN tasks
    /\ tasks[k].pc = "sub_strokes"
    /\ tasks' = [tasks EXCEPT
                   ![k].pc = "sub_snap",
                   ![k].snap = findStrokes(tasks[k].session.id,
                                           tasks[k].session.currentSlideId)]
    /\ UNCHANGED <<legacy, handshake, readyState, clients, meta, rooms, chatMessages, sessions,
                   slides, strokes, reqs, inbox, nextSeq, frames, nextReq, nextId, responses>>

\* subscribe resumes after findMany: lines 251-287
SubscribeReply(k) ==
    /\ k \in DOMAIN tasks
    /\ tasks[k].pc = "sub_snap"
    /\ inbox' = subscribeReplies(inbox, tasks[k], meta, tasks[k].snap)
    /\ tasks' = Drop(tasks, k)
    /\ UNCHANGED <<legacy, handshake, readyState, clients, meta, rooms, chatMessages, sessions,
                   slides, strokes, reqs, nextSeq, frames, nextReq, nextId, responses>>

(* ------------------------------- STROKE ------------------------------- *)

\* a handler without its role check
notAdminNever(sock) == FALSE

\* a role check that refuses only connections that have joined nothing
notAdminOnlyOutside(sock) == ~meta[sock].isAdmin /\ meta[sock].sessionId = None

\* the role check of handleStroke, handleClearSlide and handleChatToggle
\* (lines 291, 325, 389)
notAdmin(sock) == ~meta[sock].isAdmin

\* handleMessage for STROKE, up to handleStroke's first await (290-301)
ReceiveStroke(sock, sessionId, slideId) ==
    /\ CanReceive(sock)
    /\ IF notAdmin(sock) THEN
           /\ inbox' = send(inbox, sock, ErrorMsg(nextSeq, "Admin privileges required"))
           /\ UNCHANGED tasks
       ELSE IF meta[sock].sessionId # sessionId THEN
           /\ inbox' = send(inbox, sock,
                            ErrorMsg(nextSeq, "Join the session before sending strokes"))
           /\ UNCHANGED tasks
       ELSE
           /\ tasks' = Put(tasks, nextSeq,
                           NewTask(nextSeq, sock, "STROKE", sessionId, slideId,
                                   FALSE, "stroke_find"))
           /\ UNCHANGED inbox
    /\ nextSeq' = nextSeq + 1
    /\ frames' = Put(frames, nextSeq, Frame(sock, "STROKE", sessionId, slideId, FALSE))
    /\ UNCHANGED <<legacy, handshake, readyState, clients, meta, rooms, chatMessages, sessions,
                   slides, strokes, reqs, nextReq, nextId, responses>>

\* the store answers handleStroke's slide.findUnique (line 301)
DbStrokeFindSlide(k) ==
    /\ k \in DOMAIN tasks
    /\ tasks[k].pc = "stroke_find"
    /\ tasks' = [tasks EXCEPT ![k].pc = "stroke_found",
                              ![k].slide = findSlide(tasks[k].slideId)]
    /\ UNCHANGED <<legacy, handshake, readyState, clients, meta, rooms, chatMessages, sessions,
                   slides, strokes, reqs, inbox, nextSeq, frames, nextReq, nextId, responses>>

\* a slide check that accepts a slide of any session
slideMissingOnly(t) == t.slide = Null

\* the slide check both handleStroke and handleClearSlide make (302, 336)
slideMissing(t) == t.slide = Null \/ t.slide.sessionId # t.sessionId

\* handleStroke resumes after findUnique: lines 302-307
StrokeCheck(k) ==
    /\ k \in DOMAIN tasks
    /\ tasks[k].pc = "stroke_found"
    /\ IF slideMissing(tasks[k]) THEN
           /\ inbox' = send(inbox, tasks[k].sock, ErrorMsg(k, "Slide not found"))
           /\ tasks' = Drop(tasks, k)
       ELSE
           /\ tasks' = [tasks EXCEPT ![k].pc = "stroke_create"]
           /\ UNCHANGED inbox
    /\ UNCHANGED <<legacy, handshake, readyState, clients, meta, rooms, chatMessages, sessions,
                   slides, strokes, reqs, nextSeq, frames, nextReq, nextId, responses>>

\* a store without the foreign key from Stroke to Slide
slideGoneNever(slideId) == FALSE

\* Stroke_slideId_fkey: an insert that names no stored slide is refused
slideGone(slideId) == slideId \notin DOMAIN slides

\* the store executes handleStroke's stroke.create (307-314); when the
\* foreign key refuses the insert the call rejects and created stays null
DbStrokeCreate(k) ==
    /\ k \in DOMAIN tasks
    /\ tasks[k].pc = "stroke_create"
    /\ IF slideGone(tasks[k].slideId) THEN
           /\ tasks' = [tasks EXCEPT ![k].pc = "stroke_created"]
           /\ UNCHANGED <<strokes, nextId>>
       ELSE
           \* cmd: the frame that stored the stroke, kept beside the row
           LET rec == [id |-> nextId, sessionId |-> tasks[k].sessionId,
                       slideId |-> tasks[k].slideId,
                       createdById |-> meta[tasks[k].sock].userId,
                       cmd |-> k]
           IN  /\ strokes' = Append(strokes, rec)
               /\ tasks' = [tasks EXCEPT ![k].pc = "stroke_created",
                                         ![k].created = rec]
               /\ nextId' = nextId + 1
    /\ UNCHANGED <<legacy, handshake, readyState, clients, meta, rooms, chatMessages, sessions,
                   slides, reqs, inbox, nextSeq, frames, nextReq, responses>>

\* handleStroke resumes after create: lines 316-321; a rejected create
\* ends handleMessage in the catch of the message handler (109-115)
StrokeBroadcast(k) ==
    /\ k \in DOMAIN tasks
    /\ tasks[k].pc = "stroke_created"
    /\ inbox' = IF tasks[k].created = Null
                THEN send(inbox, tasks[k].sock, ErrorMsg(k, "Internal server error"))
                ELSE broadcast(inbox, rooms, tasks[k].sessionId,
                               Msg("STROKE", tasks[k].sessionId, k,
                                   [stroke |-> tasks[k].created]), None)
    /\ tasks' = Drop(tasks, k)
    /\ UNCHANGED <<legacy, handshake, readyState, clients, meta, rooms, chatMessages, sessions,
                   slides, strokes, reqs, nextSeq, frames, nextReq, nextId, responses>>

(* ----------------------------- CLEAR_SLIDE ----------------------------- *)

\* handleMessage for CLEAR_SLIDE, up to handleClearSlide's first await (324-335)
ReceiveClearSlide(sock, sessionId, slideId) ==
    /\ CanReceive(sock)
    /\ IF notAdmin(sock) THEN
           /\ inbox' = send(inbox, sock, ErrorMsg(nextSeq, "Admin privileges required"))
           /\ UNCHANGED tasks
       ELSE IF meta[sock].sessionId # sessionId THEN
           /\ inbox' = send(inbox, sock,
                            ErrorMsg(nextSeq, "Join the session before clearing slides"))
           /\ UNCHANGED tasks
       ELSE
           /\ tasks' = Put(tasks, nextSeq,
                           NewTask(nextSeq, sock, "CLEAR_SLIDE", sessionId, slideId,
                                   FALSE, "clear_find"))
           /\ UNCHANGED inbox
    /\ nextSeq' = nextSeq + 1
    /\ frames' = Put(frames, nextSeq, Frame(sock, "CLEAR_SLIDE", sessionId, slideId, FALSE))
    /\ UNCHANGED <<legacy, handshake, readyState, clients, meta, rooms, chatMessages, sessions,
                   slides, strokes, reqs, nextReq, nextId, responses>>

\* the store answers handleClearSlide's slide.findUnique (line 335)
DbClearFindSlide(k) ==
    /\ k \in DOMAIN tasks
    /\ tasks[k].pc = "clear_find"
    /\ tasks' = [tasks EXCEPT ![k].pc = "clear_found",
                              ![k].slide = findSlide(tasks[k].slideId)]
    /\ UNCHANGED <<legacy, handshake, readyState, clients, meta, rooms, chatMessages, sessions,
                   slides, strokes, reqs, inbox, nextSeq, frames, nextReq, nextId, responses>>

\* handleClearSlide resumes after findUnique: lines 336-341
ClearCheck(k) ==
    /\ k \in DOMAIN tasks
    /\ tasks[k].pc = "clear_found"
    /\ IF slideMissing(tasks[k]) THEN
           /\ inbox' = send(inbox, tasks[k].sock, ErrorMsg(k, "Slide not found"))
           /\ tasks' = Drop(tasks, k)
       ELSE
           /\ tasks' = [tasks EXCEPT ![k].pc = "clear_delete"]
           /\ UNCHANGED inbox
    /\ UNCHANGED <<legacy, handshake, readyState, clients, meta, rooms, chatMessages, sessions,
                   slides, strokes, reqs, nextSeq, frames, nextReq, nextId, responses>>

\* the strokes of s that are not on slide pid, in the order of s
RECURSIVE withoutSlide(_, _)
withoutSlide(s, pid) ==
    IF s = <<>> THEN <<>>
    ELSE IF Head(s).slideId = pid THEN withoutSlide(Tail(s), pid)
         ELSE <<Head(s)>> \o withoutSlide(Tail(s), pid)

\* the store executes stroke.deleteMany({where: {slideId}}) (line 341)
DbClearDelete(k) ==
    /\ k \in DOMAIN tasks
    /\ tasks[k].pc = "clear_delete"
    /\ strokes' = withoutSlide(strokes, tasks[k].slideId)
    /\ tasks' = [tasks EXCEPT ![k].pc = "clear_deleted"]
    /\ UNCHANGED <<legacy, handshake, readyState, clients, meta, rooms, chatMessages, sessions,
                   slides, reqs, inbox, nextSeq, frames, nextReq, nextId, responses>>

\* handleClearSlide resumes after deleteMany: lines 343-346
ClearBroadcast(k) ==
    /\ k \in DOMAIN tasks
    /\ tasks[k].pc = "clear_deleted"
    /\ inbox' = broadcast(inbox, rooms, tasks[k].sessionId,
                          Msg("CLEAR_SLIDE", tasks[k].sessionId, k,
                              [slideId |-> tasks[k].slideId]), None)
    /\ tasks' = Drop(tasks, k)
    /\ UNCHANGED <<legacy, handshake, readyState, clients, meta, rooms, chatMessages, sessions,
                   slides, strokes, reqs, nextSeq, frames, nextReq, nextId, responses>>

(* ---------------------------- CHAT_MESSAGE ---------------------------- *)

\* the history cap of handleChatMessage (line 377)
ChatCap == 200

\* handleMessage for CHAT_MESSAGE with a text the schema accepts, up to
\* handleChatMessage's first await (349-355)
ReceiveChatMessage(sock, sessionId) ==
    /\ CanReceive(sock)
    /\ IF meta[sock].sessionId # sessionId THEN
           /\ inbox' = send(inbox, sock,
                            ErrorMsg(nextSeq, "Join the session before sending messages"))
           /\ UNCHANGED tasks
       ELSE
           /\ tasks' = Put(tasks, nextSeq,
                           NewTask(nextSeq, sock, "CHAT_MESSAGE", sessionId, None,
                                   FALSE, "chat_find"))
           /\ UNCHANGED inbox
    /\ nextSeq' = nextSeq + 1
    /\ frames' = Put(frames, nextSeq, Frame(sock, "CHAT_MESSAGE", sessionId, None, FALSE))
    /\ UNCHANGED <<legacy, handshake, readyState, clients, meta, rooms, chatMessages, sessions,
                   slides, strokes, reqs, nextReq, nextId, responses>>

\* the store answers handleChatMessage's session.findUnique (line 355)
DbChatFindSession(k) ==
    /\ k \in DOMAIN tasks
    /\ tasks[k].pc = "chat_find"
    /\ tasks' = [tasks EXCEPT ![k].pc = "chat_found",
                              ![k].session = findSession(tasks[k].sessionId)]
    /\ UNCHANGED <<legacy, handshake, readyState, clients, meta, rooms, chatMessages, sessions,
                   slides, strokes, reqs, inbox, nextSeq, frames, nextReq, nextId, responses>>

\* a history that takes the new message at its front
pushHistoryFront(history, chatMessage) ==
    LET h == <<chatMessage>> \o history
    IN  IF Len(h) > ChatCap THEN Tail(h) ELSE h

\* history.push, then history.shift when over the cap (376-379)
pushHistory(history, chatMessage) ==
    LET h == Append(history, chatMessage)
    IN  IF Len(h) > ChatCap THEN Tail(h) ELSE h

\* a chat check that lets the session's admin through
chatDisabledUnlessAdmin(t) == ~t.session.chatEnabled /\ ~meta[t.sock].isAdmin

\* the chat check of handleChatMessage (line 361), on the session it read
chatDisabled(t) == ~t.session.chatEnabled

\* handleChatMessage resumes after findUnique: lines 356-385
ChatDeliver(k) ==
    /\ k \in DOMAIN tasks
    /\ tasks[k].pc = "chat_found"
    /\ LET t == tasks[k] IN
       IF t.session = Null THEN
           /\ inbox' = send(inbox, t.sock, ErrorMsg(k, "Session not found"))
           /\ UNCHANGED chatMessages
       ELSE IF chatDisabled(t) THEN
           /\ inbox' = send(inbox, t.sock,
                            ErrorMsg(k, "Chat is disabled for this session"))
           /\ UNCHANGED chatMessages
       ELSE
           LET chatMessage == [id |-> k, sessionId |-> t.sessionId,
                               userId |-> meta[t.sock].userId]
               history == IF t.sessionId \in DOMAIN chatMessages
                          THEN chatMessages[t.sessionId] ELSE <<>>
           IN  /\ chatMessages' = Put(chatMessages, t.sessionId,
                                      pushHistory(history, chatMessage))
               /\ inbox' = broadcast(inbox, rooms, t.sessionId,
                                     Msg("CHAT_MESSAGE", t.sessionId, k, chatMessage),
                                     None)
    /\ tasks' = Drop(tasks, k)
    /\ UNCHANGED <<legacy, handshake, readyState, clients, meta, rooms, sessions, slides, strokes,
                   reqs, nextSeq, frames, nextReq, nextId, responses>>

(* ----------------------------- CHAT_ENABLE ----------------------------- *)

\* handleMessage for CHAT_ENABLE, up to handleChatToggle's first await (388-399)
ReceiveChatToggle(sock, sessionId, enabled) ==
    /\ CanReceive(sock)
    /\ IF notAdmin(sock) THEN
           /\ inbox' = send(inbox, sock, ErrorMsg(nextSeq, "Admin privileges required"))
           /\ UNCHANGED tasks
       ELSE IF meta[sock].sessionId # sessionId THEN
           /\ inbox' = send(inbox, sock,
                            ErrorMsg(nextSeq, "Join the session before updating chat"))
           /\ UNCHANGED tasks
       ELSE
           /\ tasks' = Put(tasks, nextSeq,
                           NewTask(nextSeq, sock, "CHAT_ENABLE", sessionId, None,
                                   enabled, "toggle_find"))
           /\ UNCHANGED inbox
    /\ nextSeq' = nextSeq + 1
    /\ frames' = Put(frames, nextSeq, Frame(sock, "CHAT_ENABLE", sessionId, None, enabled))
    /\ UNCHANGED <<legacy, handshake, readyState, clients, meta, rooms, chatMessages, sessions,
                   slides, strokes, reqs, nextReq, nextId, responses>>

\* the store answers handleChatToggle's session.findUnique (line 399)
DbToggleFindSession(k) ==
    /\ k \in DOMAIN tasks
    /\ tasks[k].pc = "toggle_find"
    /\ tasks' = [tasks EXCEPT ![k].pc = "toggle_found",
                              ![k].session = findSession(tasks[k].sessionId)]
    /\ UNCHANGED <<legacy, handshake, readyState, clients, meta, rooms, chatMessages, sessions,
                   slides, strokes, reqs, inbox, nextSeq, frames, nextReq, nextId, responses>>

\* handleChatToggle resumes after findUnique: lines 400-413
ToggleCheck(k) ==
    /\ k \in DOMAIN tasks
    /\ tasks[k].pc = "toggle_found"
    /\ LET t == tasks[k] IN
       IF t.session = Null THEN
           /\ inbox' = send(inbox, t.sock, ErrorMsg(k, "Session not found"))
           /\ tasks' = Drop(tasks, k)
       ELSE IF t.session.chatEnabled = t.enabled THEN
           /\ inbox' = send(inbox, t.sock,
                            Msg("CHAT_ENABLE", t.sessionId, k, [enabled |-> t.enabled]))
           /\ tasks' = Drop(tasks, k)
       ELSE
           /\ tasks' = [tasks EXCEPT ![k].pc = "toggle_update"]
           /\ UNCHANGED inbox
    /\ UNCHANGED <<legacy, handshake, readyState, clients, meta, rooms, chatMessages, sessions,
                   slides, strokes, reqs, nextSeq, frames, nextReq, nextId, responses>>

\* the store executes handleChatToggle's session.update (413-416)
DbToggleUpdate(k) ==
    /\ k \in DOMAIN tasks
    /\ tasks[k].pc = "toggle_update"
    /\ sessions' = [sessions EXCEPT
                      ![tasks[k].sessionId].chatEnabled = tasks[k].enabled,
                      ![tasks[k].sessionId].updatedAt = @ + 1]
    /\ tasks' = [tasks EXCEPT ![k].pc = "toggle_updated"]
    /\ UNCHANGED <<legacy, handshake, readyState, clients, meta, rooms, chatMessages, slides,
                   strokes, reqs, inbox, nextSeq, frames, nextReq, nextId, responses>>

\* handleChatToggle resumes after update: lines 418-421
ToggleBroadcast(k) ==
    /\ k \in DOMAIN tasks
    /\ tasks[k].pc = "toggle_updated"
    /\ inbox' = broadcast(inbox, rooms, tasks[k].sessionId,
                          Msg("CHAT_ENABLE", tasks[k].sessionId, k,
                              [enabled |-> tasks[k].enabled]), None)
    /\ tasks' = Drop(tasks, k)
    /\ UNCHANGED <<legacy, handshake, readyState, clients, meta, rooms, chatMessages, sessions,
                   slides, strokes, reqs, nextSeq, frames, nextReq, nextId, responses>>

(* ------------------------ REST: start and end ------------------------- *)

\* the slides of a session as `include: {slides: {orderBy: {order: 'asc'}}}`
\* returns them
RECURSIVE sortedSlides(_)
sortedSlides(S) ==
    IF S = {} THEN <<>>
    ELSE LET first == CHOOSE p \in S : \A q \in S : slides[p].order <= slides[q].order
         IN  <<slides[first]>> \o sortedSlides(S \ {first})

slidesOf(sessionId) ==
    sortedSlides({p \in DOMAIN slides : slides[p].sessionId = sessionId})

NewReq(n, op, user, sessionId) ==
    [n |-> n, op |-> op, user |-> user, sessionId |-> sessionId, pc |-> "find",
     session |-> Null, slides |-> <<>>, setCurrent |-> None, updated |-> Null,
     slideId |-> None, created |-> None, payload |-> Null]

\* POST /session/:sessionId/start reaches startSession (258-262)
RestStart(user, sessionId) ==
    /\ reqs' = Put(reqs, nextReq, NewReq(nextReq, "start", user, sessionId))
    /\ nextReq' = nextReq + 1
    /\ UNCHANGED <<legacy, handshake, readyState, clients, meta, rooms, chatMessages, sessions,
                   slides, strokes, tasks, inbox, nextSeq, frames, nextId, responses>>

\* POST /session/:sessionId/end reaches endSession (305-309)
RestEnd(user, sessionId) ==
    /\ reqs' = Put(reqs, nextReq, NewReq(nextReq, "end", user, sessionId))
    /\ nextReq' = nextReq + 1
    /\ UNCHANGED <<legacy, handshake, readyState, clients, meta, rooms, chatMessages, sessions,
                   slides, strokes, tasks, inbox, nextSeq, frames, nextId, responses>>

\* the store answers getOwnedSession's session.findUnique (127-132)
DbRestFindSession(n) ==
    /\ n \in DOMAIN reqs
    /\ reqs[n].pc = "find"
    /\ reqs' = [reqs EXCEPT ![n].pc = "found",
                            ![n].session = findSession(reqs[n].sessionId),
                            ![n].slides = slidesOf(reqs[n].sessionId)]
    /\ UNCHANGED <<legacy, handshake, readyState, clients, meta, rooms, chatMessages, sessions,
                   slides, strokes, tasks, inbox, nextSeq, frames, nextReq, nextId, responses>>

\* getOwnedSession without the owner check
ownedStatusAnyone(r) == IF r.session = Null THEN 404 ELSE 0

\* the status getOwnedSession's checks answer with: 0 when they pass (134-140)
ownedStatus(r) ==
    IF r.session = Null THEN 404
    ELSE IF r.session.ownerId # r.user THEN 403
    ELSE 0

\* a start check that forgets the ended session
startRefusedOnlyLive(session) == session.status = "LIVE"

\* may startSession go on to its update (264-270)
startRefused(session) == session.status = "LIVE" \/ session.status = "ENDED"

\* may endSession go on to its update (311-313)
endRefused(session) == session.status # "LIVE"

\* startSession resumes after getOwnedSession: lines 264-282
StartCheck(n) ==
    /\ n \in DOMAIN reqs
    /\ reqs[n].op = "start"
    /\ reqs[n].pc = "found"
    /\ LET r == reqs[n] IN
       IF ownedStatus(r) # 0 THEN
           /\ responses' = Put(responses, n, ownedStatus(r))
           /\ reqs' = Drop(reqs, n)
       ELSE IF startRefused(r.session) THEN
           /\ responses' = Put(responses, n, 400)
           /\ reqs' = Drop(reqs, n)
       ELSE
           /\ reqs' = [reqs EXCEPT
                         ![n].pc = "update",
                         ![n].setCurrent =
                             IF r.session.currentSlideId = None /\ Len(r.slides) > 0
                             THEN r.slides[1].id ELSE None]
           /\ UNCHANGED responses
    /\ UNCHANGED <<legacy, handshake, readyState, clients, meta, rooms, chatMessages, sessions,
                   slides, strokes, tasks, inbox, nextSeq, frames, nextReq, nextId>>

\* the store executes startSession's session.update (282-286)
DbStartUpdate(n) ==
    /\ n \in DOMAIN reqs
    /\ reqs[n].op = "start"
    /\ reqs[n].pc = "update"
    /\ LET sid == reqs[n].sessionId
           new == [sessions[sid] EXCEPT
                     !.status = "LIVE",
                     !.currentSlideId = IF reqs[n].setCurrent # None
                                        THEN reqs[n].setCurrent ELSE @,
                     !.updatedAt = @ + 1]
       IN  /\ sessions' = [sessions EXCEPT ![sid] = new]
           /\ reqs' = [reqs EXCEPT ![n].pc = "updated", ![n].updated = new,
                                   ![n].slides = slidesOf(sid)]
    /\ UNCHANGED <<legacy, handshake, readyState, clients, meta, rooms, chatMessages, slides,
                   strokes, tasks, inbox, nextSeq, frames, nextReq, nextId, responses>>

\* startSession resumes after update: lines 288-299
StartBroadcast(n) ==
    /\ n \in DOMAIN reqs
    /\ reqs[n].op = "start"
    /\ reqs[n].pc = "updated"
    /\ LET r  == reqs[n]
           i1 == broadcast(inbox, rooms, r.updated.id,
                           Msg("SESSION_STARTED", r.updated.id, 0, Null), None)
       IN  inbox' = broadcast(i1, rooms, r.updated.id,
                              Msg("SLIDE_CHANGED", r.updated.id, 0,
                                  [currentSlideId |-> r.updated.currentSlideId,
                                   slides |-> r.slides]), None)
    /\ responses' = Put(responses, n, 200)
    /\ reqs' = Drop(reqs, n)
    /\ UNCHANGED <<legacy, handshake, readyState, clients, meta, rooms, chatMessages, sessions,
                   slides, strokes, tasks, nextSeq, frames, nextReq, nextId>>

\* endSession resumes after getOwnedSession: lines 311-315
EndCheck(n) ==
    /\ n \in DOMAIN reqs
    /\ reqs[n].op = "end"
    /\ reqs[n].pc = "found"
    /\ LET r == reqs[n] IN
       IF ownedStatus(r) # 0 THEN
           /\ responses' = Put(responses, n, ownedStatus(r))
           /\ reqs' = Drop(reqs, n)
       ELSE IF endRefused(r.session) THEN
           /\ responses' = Put(responses, n, 400)
           /\ reqs' = Drop(reqs, n)
       ELSE
           /\ reqs' = [reqs EXCEPT ![n].pc = "update"]
           /\ UNCHANGED responses
    /\ UNCHANGED <<legacy, handshake, readyState, clients, meta, rooms, chatMessages, sessions,
                   slides, strokes, tasks, inbox, nextSeq, frames, nextReq, nextId>>

\* the store executes endSession's session.update (315-322)
DbEndUpdate(n) ==
    /\ n \in DOMAIN reqs
    /\ reqs[n].op = "end"
    /\ reqs[n].pc = "update"
    /\ LET sid == reqs[n].sessionId
           new == [sessions[sid] EXCEPT !.status = "ENDED", !.updatedAt = @ + 1]
       IN  /\ sessions' = [sessions EXCEPT ![sid] = new]
           /\ reqs' = [reqs EXCEPT ![n].pc = "updated", ![n].updated = new]
    /\ UNCHANGED <<legacy, handshake, readyState, clients, meta, rooms, chatMessages, slides,
                   strokes, tasks, inbox, nextSeq, frames, nextReq, nextId, responses>>

\* endSession resumes after update: lines 324-329
EndBroadcast(n) ==
    /\ n \in DOMAIN reqs
    /\ reqs[n].op = "end"
    /\ reqs[n].pc = "updated"
    /\ inbox' = broadcast(inbox, rooms, reqs[n].updated.id,
                          Msg("SESSION_ENDED", reqs[n].updated.id, 0, Null), None)
    /\ responses' = Put(responses, n, 200)
    /\ reqs' = Drop(reqs, n)
    /\ UNCHANGED <<legacy, handshake, readyState, clients, meta, rooms, chatMessages, sessions,
                   slides, strokes, tasks, nextSeq, frames, nextReq, nextId>>

(* ---------------------------- REST: slides ----------------------------- *)

\* ids the store generates for new rows, by generation number
SlidePool == <<"q1", "q2", "q3", "q4", "q5", "q6", "q7", "q8", "q9">>

\* POST /session/:sessionId/slide/empty reaches createEmptySlide (423-427)
RestCreateSlide(user, sessionId) ==
    /\ reqs' = Put(reqs, nextReq, NewReq(nextReq, "create", user, sessionId))
    /\ nextReq' = nextReq + 1
    /\ UNCHANGED <<legacy, handshake, readyState, clients, meta, rooms, chatMessages, sessions,
                   slides, strokes, tasks, inbox, nextSeq, frames, nextId, responses>>

\* DELETE /session/:sessionId/slide/:slideId reaches deleteSlide (453-458)
RestDeleteSlide(user, sessionId, slideId) ==
    /\ reqs' = Put(reqs, nextReq,
                   [NewReq(nextReq, "delete", user, sessionId) EXCEPT
                      !.slideId = slideId])
    /\ nextReq' = nextReq + 1
    /\ UNCHANGED <<legacy, handshake, readyState, clients, meta, rooms, chatMessages, sessions,
                   slides, strokes, tasks, inbox, nextSeq, frames, nextId, responses>>

\* createEmptySlide resumes after getOwnedSession: lines 429-431
CreateCheck(n) ==
    /\ n \in DOMAIN reqs
    /\ reqs[n].op = "create"
    /\ reqs[n].pc = "found"
    /\ IF ownedStatus(reqs[n]) # 0 THEN
           /\ responses' = Put(responses, n, ownedStatus(reqs[n]))
           /\ reqs' = Drop(reqs, n)
       ELSE
           /\ reqs' = [reqs EXCEPT ![n].pc = "create"]
           /\ UNCHANGED responses
    /\ UNCHANGED <<legacy, handshake, readyState, clients, meta, rooms, chatMessages, sessions,
                   slides, strokes, tasks, inbox, nextSeq, frames, nextReq, nextId>>

\* the store executes createEmptySlide's slide.create (431-438); the handler
\* then goes on to session.update if the session it read had no current
\* slide (440), else to respondWithSlides (447)
DbSlideCreate(n) ==
    /\ n \in DOMAIN reqs
    /\ reqs[n].op = "create"
    /\ reqs[n].pc = "create"
    /\ nextId <= Len(SlidePool)
    /\ LET r  == reqs[n]
           id == SlidePool[nextId]
       IN  /\ slides' = Put(slides, id,
                            [id |-> id, sessionId |-> r.session.id,
                             order |-> Len(r.slides)])
           /\ reqs' = [reqs EXCEPT
                         ![n].created = id,
                         ![n].pc = IF r.session.currentSlideId = None
                                   THEN "set_current" ELSE "payload"]
    /\ nextId' = nextId + 1
    /\ UNCHANGED <<legacy, handshake, readyState, clients, meta, rooms, chatMessages, sessions,
                   strokes, tasks, inbox, nextSeq, frames, nextReq, responses>>

\* the store executes createEmptySlide's session.update (441-444)
DbCreateSetCurrent(n) ==
    /\ n \in DOMAIN reqs
    /\ reqs[n].pc = "set_current"
    /\ sessions' = [sessions EXCEPT
                      ![reqs[n].sessionId].currentSlideId = reqs[n].created,
                      ![reqs[n].sessionId].updatedAt = @ + 1]
    /\ reqs' = [reqs EXCEPT ![n].pc = "payload"]
    /\ UNCHANGED <<legacy, handshake, readyState, clients, meta, rooms, chatMessages, slides,
                   strokes, tasks, inbox, nextSeq, frames, nextReq, nextId, responses>>

\* the position of slide id in the sequence of slides seq
RECURSIVE IndexOf(_, _)
IndexOf(seq, id) ==
    IF Head(seq).id = id THEN 1 ELSE 1 + IndexOf(Tail(seq), id)

\* a deletion that leaves the session without a current slide
nextSlideIdNull(remainingSlides) == None

\* remainingSlides[0]?.id ?? null (line 485)
nextSlideId(remainingSlides) ==
    IF Len(remainingSlides) > 0 THEN remainingSlides[1].id ELSE None

\* deleteSlide resumes after getOwnedSession: lines 460-467
DeleteCheck(n) ==
    /\ n \in DOMAIN reqs
    /\ reqs[n].op = "delete"
    /\ reqs[n].pc = "found"
    /\ LET r == reqs[n] IN
       IF ownedStatus(r) # 0 THEN
           /\ responses' = Put(responses, n, ownedStatus(r))
           /\ reqs' = Drop(reqs, n)
       ELSE IF \A x \in 1..Len(r.slides) : r.slides[x].id # r.slideId THEN
           /\ responses' = Put(responses, n, 404)
           /\ reqs' = Drop(reqs, n)
       ELSE
           /\ reqs' = [reqs EXCEPT ![n].pc = "tx"]
           /\ UNCHANGED responses
    /\ UNCHANGED <<legacy, handshake, readyState, clients, meta, rooms, chatMessages, sessions,
                   slides, strokes, tasks, inbox, nextSeq, frames, nextReq, nextId>>

\* the store executes deleteSlide's transaction (467-491) and commits it;
\* slide.delete of a slide that is gone rejects, the transaction rolls back
\* and the error handler answers 500.  Slides of equal order come in the
\* order sortedSlides picks
DbDeleteTx(n) ==
    /\ n \in DOMAIN reqs
    /\ reqs[n].pc = "tx"
    /\ LET r   == reqs[n]
           sid == r.sessionId
       IN
       IF r.slideId \notin DOMAIN slides THEN
           /\ responses' = Put(responses, n, 500)
           /\ reqs' = Drop(reqs, n)
           /\ UNCHANGED <<sessions, slides, strokes>>
       ELSE
           LET remainingSlides ==
                   sortedSlides({p \in DOMAIN slides \ {r.slideId} :
                                    slides[p].sessionId = sid})
           IN  /\ strokes' = withoutSlide(strokes, r.slideId)
               /\ slides' = [p \in DOMAIN slides \ {r.slideId} |->
                                IF slides[p].sessionId = sid
                                THEN [slides[p] EXCEPT
                                        !.order = IndexOf(remainingSlides, p) - 1]
                                ELSE slides[p]]
               /\ sessions' =
                     IF r.session.currentSlideId = r.slideId
                     THEN [sessions EXCEPT
                             ![sid].currentSlideId = nextSlideId(remainingSlides),
                             ![sid].updatedAt = @ + 1]
                     ELSE sessions
               /\ reqs' = [reqs EXCEPT ![n].pc = "payload"]
               /\ UNCHANGED responses
    /\ UNCHANGED <<legacy, handshake, readyState, clients, meta, rooms, chatMessages, tasks,
                   inbox, nextSeq, frames, nextReq, nextId>>

\* the store answers getSlidesPayload's session.findUnique (146-149)
DbSlidesPayload(n) ==
    /\ n \in DOMAIN reqs
    /\ reqs[n].pc = "payload"
    /\ reqs' = [reqs EXCEPT
                  ![n].pc = "respond",
                  ![n].payload =
                      [sessionId |-> reqs[n].sessionId,
                       currentSlideId |-> sessions[reqs[n].sessionId].currentSlideId,
                       slides |-> slidesOf(reqs[n].sessionId)]]
    /\ UNCHANGED <<legacy, handshake, readyState, clients, meta, rooms, chatMessages, sessions,
                   slides, strokes, tasks, inbox, nextSeq, frames, nextReq, nextId, responses>>

\* respondWithSlides resumes after getSlidesPayload: lines 178-179
RespondWithSlides(n) ==
    /\ n \in DOMAIN reqs
    /\ reqs[n].pc = "respond"
    /\ responses' = Put(responses, n, IF reqs[n].op = "create" THEN 201 ELSE 200)
    /\ inbox' = broadcast(inbox, rooms, reqs[n].payload.sessionId,
                          Msg("SLIDE_CHANGED", reqs[n].payload.sessionId, 0,
                              reqs[n].payload), None)
    /\ reqs' = Drop(reqs, n)
    /\ UNCHANGED <<legacy, handshake, readyState, clients, meta, rooms, chatMessages, sessions,
                   slides, strokes, tasks, nextSeq, frames, nextReq, nextId>>

(* --------------------------- specifications --------------------------- *)

ConnectionStep ==
    \/ \E sock \in Sockets : HandleConnection(sock)
    \/ \E sock \in Sockets : Close(sock)

SubscribeStep ==
    \/ \E k \in DOMAIN tasks : DbSubscribeFindSession(k)
    \/ \E k \in DOMAIN tasks : SubscribeJoin(k)
    \/ \E k \in DOMAIN tasks : DbSubscribeFindStrokes(k)
    \/ \E k \in DOMAIN tasks : SubscribeReply(k)

StrokeStep ==
    \/ \E k \in DOMAIN tasks : DbStrokeFindSlide(k)
    \/ \E k \in DOMAIN tasks : StrokeCheck(k)
    \/ \E k \in DOMAIN tasks : DbStrokeCreate(k)
    \/ \E k \in DOMAIN tasks : StrokeBroadcast(k)

ClearStep ==
    \/ \E k \in DOMAIN tasks : DbClearFindSlide(k)
    \/ \E k \in DOMAIN tasks : ClearCheck(k)
    \/ \E k \in DOMAIN tasks : DbClearDelete(k)
    \/ \E k \in DOMAIN tasks : ClearBroadcast(k)

ChatStep ==
    \/ \E k \in DOMAIN tasks : DbChatFindSession(k)
    \/ \E k \in DOMAIN tasks : ChatDeliver(k)

ToggleStep ==
    \/ \E k \in DOMAIN tasks : DbToggleFindSession(k)
    \/ \E k \in DOMAIN tasks : ToggleCheck(k)
    \/ \E k \in DOMAIN tasks : DbToggleUpdate(k)
    \/ \E k \in DOMAIN tasks : ToggleBroadcast(k)

RestStep ==
    \/ \E n \in DOMAIN reqs : DbRestFindSession(n)
    \/ \E n \in DOMAIN reqs : StartCheck(n)
    \/ \E n \in DOMAIN reqs : DbStartUpdate(n)
    \/ \E n \in DOMAIN reqs : StartBroadcast(n)
    \/ \E n \in DOMAIN reqs : EndCheck(n)
    \/ \E n \in DOMAIN reqs : DbEndUpdate(n)
    \/ \E n \in DOMAIN reqs : EndBroadcast(n)

SlideStep ==
    \/ \E n \in DOMAIN reqs : DbRestFindSession(n)
    \/ \E n \in DOMAIN reqs : CreateCheck(n)
    \/ \E n \in DOMAIN reqs : DbSlideCreate(n)
    \/ \E n \in DOMAIN reqs : DbCreateSetCurrent(n)
    \/ \E n \in DOMAIN reqs : DeleteCheck(n)
    \/ \E n \in DOMAIN reqs : DbDeleteTx(n)
    \/ \E n \in DOMAIN reqs : DbSlidesPayload(n)
    \/ \E n \in DOMAIN reqs : RespondWithSlides(n)

\* start requests, without the end requests
StartStep ==
    \/ \E n \in DOMAIN reqs : StartCheck(n)
    \/ \E n \in DOMAIN reqs : DbStartUpdate(n)
    \/ \E n \in DOMAIN reqs : StartBroadcast(n)

\* the session ids of the store
Stored == {"s1", "s2"}

\* SpecRooms: subscribes of both kinds, by both sockets, to both sessions,
\* and closes
NextRooms ==
    \/ ConnectionStep
    \/ /\ nextSeq <= MaxRoomCmds
       /\ \E sock \in Sockets, roomId \in Stored, asAdmin \in BOOLEAN :
             ReceiveSubscribe(sock, roomId, asAdmin)
    \/ SubscribeStep

SpecRooms == Init /\ [][NextRooms]_vars

\* SpecLife: socket a subscribes to its own s1 as admin or to s2, and socket b
\* to s1, while the owner of s1 starts and ends it over REST
NextLife ==
    \/ ConnectionStep
    \/ /\ nextSeq <= MaxLifeCmds
       /\ \/ ReceiveSubscribe("a", "s1", TRUE)
          \/ ReceiveSubscribe("a", "s2", FALSE)
          \/ ReceiveSubscribe("b", "s1", FALSE)
    \/ SubscribeStep
    \/ /\ nextReq <= MaxLifeRest
       /\ \/ RestStart("u1", "s1")
          \/ RestEnd("u1", "s1")
    \/ RestStep

SpecLife == InitLife /\ [][NextLife]_vars

\* SpecRest: start and end requests of any user for any session id
NextRest ==
    \/ /\ nextReq <= MaxRest
       /\ \E user \in Users, sessionId \in SessionIds :
             \/ RestStart(user, sessionId)
             \/ RestEnd(user, sessionId)
    \/ RestStep

SpecRest == Init /\ [][NextRest]_vars

\* SpecDraw: the owner a presents s1 (subscribes as admin, draws on and clears
\* slide p1) while b joins s1 as a viewer
NextDraw ==
    \/ ConnectionStep
    \/ /\ nextSeq <= MaxDrawCmds
       /\ \/ ReceiveSubscribe("a", "s1", TRUE)
          \/ ReceiveSubscribe("b", "s1", FALSE)
          \/ ReceiveStroke("a", "s1", "p1")
          \/ ReceiveClearSlide("a", "s1", "p1")
    \/ SubscribeStep
    \/ StrokeStep
    \/ ClearStep

SpecDraw == Init /\ [][NextDraw]_vars

\* SpecFanout: a presents s1 and may move on to s2 or drop out, b watches s1;
\* a draws on s1 and chats in s1
NextFanout ==
    \/ \E sock \in Sockets : HandleConnection(sock)
    \/ Close("a")
    \/ /\ nextSeq <= MaxFanoutCmds
       /\ \/ ReceiveSubscribe("a", "s1", TRUE)
          \/ ReceiveSubscribe("a", "s2", FALSE)
          \/ ReceiveSubscribe("b", "s1", FALSE)
          \/ ReceiveStroke("a", "s1", "p1")
          \/ ReceiveChatMessage("a", "s1")
    \/ SubscribeStep
    \/ StrokeStep
    \/ ChatStep

SpecFanout == Init /\ [][NextFanout]_vars

\* Spec: every command of the protocol, by both sockets: subscribes to both
\* sessions, the other commands for s1
Next ==
    \/ ConnectionStep
    \/ /\ nextSeq <= MaxCmds
       /\ \/ \E sock \in Sockets, roomId \in Stored, asAdmin \in BOOLEAN :
                ReceiveSubscribe(sock, roomId, asAdmin)
          \/ \E sock \in Sockets : ReceiveStroke(sock, "s1", "p1")
          \/ \E sock \in Sockets : ReceiveClearSlide(sock, "s1", "p1")
          \/ \E sock \in Sockets : ReceiveChatMessage(sock, "s1")
          \/ \E sock \in Sockets, enabled \in BOOLEAN :
                ReceiveChatToggle(sock, "s1", enabled)
    \/ SubscribeStep
    \/ StrokeStep
    \/ ClearStep
    \/ ChatStep
    \/ ToggleStep

Spec == Init /\ [][Next]_vars

\* SpecChat: the admin a switches the chat of s1 on and off while a and the
\* viewer b write to it; b may drop out
NextChat ==
    \/ Close("b")
    \/ /\ nextSeq <= MaxChatCmds
       /\ \/ \E enabled \in BOOLEAN : ReceiveChatToggle("a", "s1", enabled)
          \/ \E sock \in Sockets : ReceiveChatMessage(sock, "s1")
    \/ ChatStep
    \/ ToggleStep

SpecChat == InitChat /\ [][NextChat]_vars

\* the ids the store has generated so far
Generated == {SlidePool[i] : i \in 1..(nextId - 1)}

\* SpecSlides: the owner of s2, a session without slides, adds slides,
\* deletes slides it has added and starts the session, in concurrent requests
NextSlides ==
    \/ /\ nextReq <= MaxSlideReqs
       /\ \/ RestCreateSlide("u2", "s2")
          \/ \E slideId \in Generated : RestDeleteSlide("u2", "s2", slideId)
          \/ RestStart("u2", "s2")
    \/ SlideStep
    \/ StartStep

SpecSlides == Init /\ [][NextSlides]_vars

\* SpecDelete: the owner of s1 adds and deletes slides, one request at a
\* time, while it draws on slide p1 as admin a and b watches
NextDelete ==
    \/ /\ nextReq <= MaxDeleteReqs
       /\ reqs = <<>>
       /\ \/ RestCreateSlide("u1", "s1")
          \/ \E slideId \in {"p1"} \cup Generated :
                RestDeleteSlide("u1", "s1", slideId)
    \/ SlideStep
    \/ /\ nextSeq <= MaxDeleteCmds
       /\ ReceiveStroke("a", "s1", "p1")
    \/ StrokeStep

SpecDelete == InitChat /\ [][NextDelete]_vars

(* -------------------- the broadcast primitive alone -------------------- *)

\* calls of broadcast in one run of SpecBroadcast
MaxBroadcasts == 2

\* a registry the gateway can be in: any sockets open or closed, any rooms,
\* none of them empty, of open sockets and of closed ones still attached
InitBroadcast ==
    /\ readyState \in [Sockets -> {"OPEN", "CLOSED"}]
    /\ clients = {s \in Sockets : readyState[s] = "OPEN"}
    /\ \E D \in SUBSET {"s1", "s2"} : rooms \in [D -> (SUBSET Sockets) \ {{}}]
    /\ meta = [s \in Sockets |->
                 [userId |-> UserOf(s), isAdmin |-> FALSE,
                  sessionId |-> IF \E sid \in DOMAIN rooms : s \in rooms[sid]
                                THEN CHOOSE sid \in DOMAIN rooms : s \in rooms[sid]
                                ELSE None]]
    /\ chatMessages = <<>>
    /\ sessions =
         [id \in {"s1", "s2"} |->
            [id |-> id,
             ownerId |-> IF id = "s1" THEN "u1" ELSE "u2",
             status |-> "LIVE",
             chatEnabled |-> TRUE,
             currentSlideId |-> IF id = "s1" THEN "p1" ELSE None,
             updatedAt |-> 0]]
    /\ slides = [id \in {"p1"} |-> [id |-> id, sessionId |-> "s1", order |-> 0]]
    /\ strokes = <<>>
    /\ tasks = <<>>
    /\ reqs = <<>>
    /\ inbox = [s \in Sockets |-> <<>>]
    /\ nextSeq = 1
    /\ frames = <<>>
    /\ nextReq = 1
    /\ nextId = 1
    /\ responses = <<>>
    /\ handshake = [s \in Sockets |-> [token |-> "valid", closeCode |-> 0]]
    /\ legacy = NewLegacySession

\* a caller is about to call broadcast(sessionId, message, {exclude})
BroadcastCaller(sessionId, exclude) ==
    /\ reqs' = Put(reqs, nextReq,
                   [n |-> nextReq, op |-> "broadcast", sessionId |-> sessionId,
                    exclude |-> exclude, pc |-> "call"])
    /\ nextReq' = nextReq + 1
    /\ UNCHANGED <<legacy, handshake, readyState, clients, meta, rooms, chatMessages, sessions,
                   slides, strokes, tasks, inbox, nextSeq, frames, nextId, responses>>

\* the call of broadcast itself
CallBroadcast(n) ==
    /\ n \in DOMAIN reqs
    /\ reqs[n].pc = "call"
    /\ inbox' = broadcast(inbox, rooms, reqs[n].sessionId,
                          Msg("EVENT", reqs[n].sessionId, 0, [call |-> n]),
                          reqs[n].exclude)
    /\ reqs' = Drop(reqs, n)
    /\ UNCHANGED <<legacy, handshake, readyState, clients, meta, rooms, chatMessages, sessions,
                   slides, strokes, tasks, nextSeq, frames, nextReq, nextId, responses>>

\* SpecBroadcast: broadcast is called with any session id and any excluded
\* socket on any registry, while open sockets close
NextBroadcast ==
    \/ /\ nextReq <= MaxBroadcasts
       /\ \E sessionId \in SessionIds, exclude \in Sockets \cup {None} :
             BroadcastCaller(sessionId, exclude)
    \/ \E n \in DOMAIN reqs : CallBroadcast(n)
    \/ \E sock \in Sockets : Close(sock)

SpecBroadcast == InitBroadcast /\ [][NextBroadcast]_vars

(* ------------------- commands that must be turned away ------------------ *)

\* frames accepted in one run of SpecReject
MaxRejectCmds == 2

\* the strokes stored before the first frame: one on each slide, drawn by
\* the owner of its session
stagedStrokes ==
    <<[id |-> 1, sessionId |-> "s1", slideId |-> "p1",
       createdById |-> "u1", cmd |-> 0],
      [id |-> 2, sessionId |-> "s2", slideId |-> "p2",
       createdById |-> "u2", cmd |-> 0]>>

\* two presentations in status st: a has subscribed to s1 as its admin, b to
\* s2 as a viewer; s1 has slide p1 and s2 has slide p2, each with one stroke
InitStaged(st) ==
    /\ readyState = [s \in Sockets |-> "OPEN"]
    /\ clients = Sockets
    /\ meta = [s \in Sockets |->
                 [userId |-> UserOf(s), isAdmin |-> (s = "a"),
                  sessionId |-> IF s = "a" THEN "s1" ELSE "s2"]]
    /\ rooms = [id \in {"s1", "s2"} |-> IF id = "s1" THEN {"a"} ELSE {"b"}]
    /\ chatMessages = <<>>
    /\ sessions =
         [id \in {"s1", "s2"} |->
            [id |-> id,
             ownerId |-> IF id = "s1" THEN "u1" ELSE "u2",
             status |-> st,
             chatEnabled |-> TRUE,
             currentSlideId |-> IF id = "s1" THEN "p1" ELSE "p2",
             updatedAt |-> 0]]
    /\ slides = [id \in {"p1", "p2"} |->
                   [id |-> id, sessionId |-> IF id = "p1" THEN "s1" ELSE "s2",
                    order |-> 0]]
    /\ strokes = stagedStrokes
    /\ tasks = <<>>
    /\ reqs = <<>>
    /\ inbox = [s \in Sockets |-> <<>>]
    /\ nextSeq = 1
    /\ frames = <<>>
    /\ nextReq = 1
    /\ nextId = 3
    /\ responses = <<>>
    /\ handshake = [s \in Sockets |-> [token |-> "valid", closeCode |-> 0]]
    /\ legacy = NewLegacySession

\* both presentations under way
InitStage == InitStaged("LIVE")

\* SpecReject: the admin a of s1 sends STROKE and CLEAR_SLIDE frames that name
\* either session and a slide of s1, a slide of s2 or no slide at all
NextReject ==
    \/ /\ nextSeq <= MaxRejectCmds
       /\ \E sessionId \in {"s1", "s2"}, slideId \in {"p1", "p2", "p0"} :
             \/ ReceiveStroke("a", sessionId, slideId)
             \/ ReceiveClearSlide("a", sessionId, slideId)
    \/ StrokeStep
    \/ ClearStep

SpecReject == InitStage /\ [][NextReject]_vars

(* --------------------------- the upgrade gate -------------------------- *)

\* frames accepted in one run of SpecAuth
MaxAuthCmds == 2

\* the gateway right after construction, with two upgrade requests on their
\* way that carry any tokens
InitAuth ==
    /\ readyState = [s \in Sockets |-> "NEW"]
    /\ clients = {}
    /\ meta = [s \in Sockets |->
                 [userId |-> UserOf(s), isAdmin |-> FALSE, sessionId |-> None]]
    /\ rooms = <<>>
    /\ chatMessages = <<>>
    /\ sessions =
         [id \in {"s1", "s2"} |->
            [id |-> id,
             ownerId |-> IF id = "s1" THEN "u1" ELSE "u2",
             status |-> "LIVE",
             chatEnabled |-> TRUE,
             currentSlideId |-> IF id = "s1" THEN "p1" ELSE None,
             updatedAt |-> 0]]
    /\ slides = [id \in {"p1"} |-> [id |-> id, sessionId |-> "s1", order |-> 0]]
    /\ strokes = <<>>
    /\ tasks = <<>>
    /\ reqs = <<>>
    /\ inbox = [s \in Sockets |-> <<>>]
    /\ nextSeq = 1
    /\ frames = <<>>
    /\ nextReq = 1
    /\ nextId = 1
    /\ responses = <<>>
    /\ handshake \in [Sockets -> [token : Tokens, closeCode : {0}]]
    /\ legacy = NewLegacySession

\* SpecAuth: upgrade requests with any tokens; every socket the gateway
\* listens to subscribes to s1 and chats there
NextAuth ==
    \/ ConnectionStep
    \/ \E sock \in Sockets : RejectConnection(sock)
    \/ /\ nextSeq <= MaxAuthCmds
       /\ \E sock \in Sockets :
             \/ \E asAdmin \in BOOLEAN : ReceiveSubscribe(sock, "s1", asAdmin)
             \/ ReceiveChatMessage(sock, "s1")
    \/ SubscribeStep
    \/ ChatStep

SpecAuth == InitAuth /\ [][NextAuth]_vars

(* ---------------------- handleMessage, from the wire -------------------- *)

\* frames accepted in one run of SpecFrames
MaxFrameCmds == 2

\* the longest chat text chatMessageSchema lets through
MaxChatText == 1000

\* the spellings of `type` a frame may carry
Spellings == {"subscribe", "Subscribe_Admin", "Stroke", "clear_slide",
              "CHAT_MESSAGE", "Chat_Enable", "ping", "PING"}

\* a comparison of the type as it was spelled
toUpperCaseNot(str) == str

\* String.prototype.toUpperCase, on the spellings above
toUpperCase(str) ==
    CASE str = "subscribe"       -> "SUBSCRIBE"
      [] str = "Subscribe_Admin" -> "SUBSCRIBE_ADMIN"
      [] str = "Stroke"          -> "STROKE"
      [] str = "clear_slide"     -> "CLEAR_SLIDE"
      [] str = "Chat_Enable"     -> "CHAT_ENABLE"
      [] str = "ping"            -> "PING"
      [] OTHER                   -> str

\* a frame as a client puts it on the wire: whether it is JSON at all, the
\* type as spelled (None: no type), and of the payload the session id (roomId
\* or sessionId), the slide id, enabled as the JSON literal, and the length
\* of the chat text once trimmed; None is a field left out
Raw(json, type, id, slideId, enabled, message) ==
    [json |-> json, type |-> type, id |-> id, slideId |-> slideId,
     enabled |-> enabled, message |-> message]

\* what a client may put on the wire: text that is not JSON, an object
\* without type, every spelling with a payload its schema accepts, and the
\* known types with payloads that lack an id or carry an empty or overlong
\* chat text
Wire ==
    {Raw(FALSE, None, "s1", "p1", "false", 1), Raw(TRUE, None, "s1", "p1", "false", 1)}
    \cup {Raw(TRUE, type, "s1", "p1", "false", 1) : type \in Spellings}
    \cup {Raw(TRUE, "subscribe", None, "p1", "false", 1),
          Raw(TRUE, "Subscribe_Admin", None, "p1", "false", 1),
          Raw(TRUE, "Stroke", "s1", None, "false", 1),
          Raw(TRUE, "clear_slide", None, "p1", "false", 1),
          Raw(TRUE, "Chat_Enable", "s1", "p1", None, 1),
          Raw(TRUE, "CHAT_MESSAGE", "s1", "p1", "false", 0),
          Raw(TRUE, "CHAT_MESSAGE", "s1", "p1", "false", MaxChatText),
          Raw(TRUE, "CHAT_MESSAGE", "s1", "p1", "false", MaxChatText + 1)}

\* subscribeSchema: roomId is a string of at least one character
subscribeSchema(data) == data.id # None

\* strokeSchema and clearSlideSchema
strokeSchema(data) == data.id # None /\ data.slideId # None

\* a chat schema without the bounds on the text
chatMessageSchemaAny(data) == data.id # None

\* chatMessageSchema: message is trimmed, then at least 1 and at most 1000
chatMessageSchema(data) ==
    data.id # None /\ data.message >= 1 /\ data.message <= MaxChatText

\* chatToggleSchema: enabled is a boolean
chatToggleSchema(data) == data.id # None /\ data.enabled \in {"true", "false"}

\* a frame that ends in an ERROR reply inside handleMessage or in the catch
\* of the message handler (109-115); the frame is logged as it came in
Refuse(sock, data, typeValue, reply) ==
    /\ CanReceive(sock)
    /\ inbox' = send(inbox, sock, Msg("ERROR", None, nextSeq, reply))
    /\ nextSeq' = nextSeq + 1
    /\ frames' = Put(frames, nextSeq,
                     [sock |-> sock, type |-> typeValue, sessionId |-> data.id,
                      slideId |-> data.slideId, enabled |-> (data.enabled = "true"),
                      isAdmin |-> meta[sock].isAdmin,
                      joined |-> meta[sock].sessionId, data |-> data])
    /\ UNCHANGED <<legacy, handshake, readyState, clients, meta, rooms, chatMessages, sessions,
                   slides, strokes, tasks, reqs, nextReq, nextId, responses>>

\* a schema's parse threw: handleMessage rejects, the catch replies
ZodError(sock, data, typeValue) ==
    Refuse(sock, data, typeValue, [message |-> "Internal server error"])

\* handleMessage from the raw frame to the command handler's first await
HandleMessage(sock, data) ==
    IF ~data.json
    THEN Refuse(sock, data, None, [message |-> "Invalid message format"])
    ELSE LET typeValue == IF data.type = None THEN None ELSE toUpperCase(data.type)
         IN  IF typeValue = None
             THEN Refuse(sock, data, None, [message |-> "Message type is required"])
             ELSE CASE typeValue = "SUBSCRIBE" ->
                         IF subscribeSchema(data)
                         THEN ReceiveSubscribe(sock, data.id, FALSE)
                         ELSE ZodError(sock, data, typeValue)
                    [] typeValue = "SUBSCRIBE_ADMIN" ->
                         IF subscribeSchema(data)
                         THEN ReceiveSubscribe(sock, data.id, TRUE)
                         ELSE ZodError(sock, data, typeValue)
                    [] typeValue = "STROKE" ->
                         IF strokeSchema(data)
                         THEN ReceiveStroke(sock, data.id, data.slideId)
                         ELSE ZodError(sock, data, typeValue)
                    [] typeValue = "CLEAR_SLIDE" ->
                         IF strokeSchema(data)
                         THEN ReceiveClearSlide(sock, data.id, data.slideId)
                         ELSE ZodError(sock, data, typeValue)
                    [] typeValue = "CHAT_MESSAGE" ->
                         IF chatMessageSchema(data)
                         THEN ReceiveChatMessage(sock, data.id)
                         ELSE ZodError(sock, data, typeValue)
                    [] typeValue = "CHAT_ENABLE" ->
                         IF chatToggleSchema(data)
                         THEN ReceiveChatToggle(sock, data.id, data.enabled = "true")
                         ELSE ZodError(sock, data, typeValue)
                    [] OTHER ->
                         Refuse(sock, data, typeValue,
                                [message |-> "Unsupported message type",
                                 type |-> typeValue])

\* SpecFrames: the admin a of s1 sends whatever a client can put on the wire
NextFrames ==
    \/ /\ nextSeq <= MaxFrameCmds
       /\ \E data \in Wire : HandleMessage("a", data)
    \/ SubscribeStep
    \/ StrokeStep
    \/ ClearStep
    \/ ChatStep
    \/ ToggleStep

SpecFrames == InitStage /\ [][NextFrames]_vars

(* ----------------------- REST events on the wire ----------------------- *)

\* REST requests accepted in one run of SpecBridge
MaxBridgeReqs == 2

\* SpecBridge: while a sits in room s1 and b in room s2, the owner u1 of s1,
\* the stranger u2 and a caller naming the unknown session s0 start and end
\* the session and add and delete slides
NextBridge ==
    \/ /\ nextReq <= MaxBridgeReqs
       /\ \E who \in {<<"u1", "s1">>, <<"u2", "s1">>, <<"u1", "s0">>} :
             \/ RestStart(who[1], who[2])
             \/ RestEnd(who[1], who[2])
             \/ RestCreateSlide(who[1], who[2])
             \/ RestDeleteSlide(who[1], who[2], "p1")
    \/ RestStep
    \/ SlideStep

SpecBridge == (\E st \in {"DRAFT", "LIVE"} : InitStaged(st)) /\ [][NextBridge]_vars

(* ------------------- the in-memory server, src/server.js ---------------- *)

\* frames taken in one run of SpecLegacy
MaxLegacyEvents == 3

\* the caps of handleStroke and handleChatMessage
StrokeCap == 5000

LegacyChatCap == 500

\* the variables of the gateway and its store, which src/server.js knows
\* nothing of
gatewayVars ==
    <<readyState, clients, meta, rooms, chatMessages, sessions, slides, strokes,
      tasks, reqs, inbox, nextSeq, frames, nextReq, nextId, responses, handshake>>

\* a trim that gives up the entry just pushed
popOverflow(buf, cap) == IF Len(buf) > cap THEN SubSeq(buf, 1, cap) ELSE buf

\* if (buf.length > cap) buf.shift()
shiftOverflow(buf, cap) == IF Len(buf) > cap THEN Tail(buf) ELSE buf

\* the session after ns strokes and nc chat messages were accepted, none of
\* them dropped yet
LegacyAfter(ns, nc, enabled) ==
    [strokes |-> [i \in 1 .. ns |-> i], chatMessages |-> [i \in 1 .. nc |-> i],
     chatEnabled |-> enabled, strokeIds |-> ns, chatIds |-> nc, events |-> 0]

\* the in-memory server with one session whose buffers are empty, one short
\* of their cap, or full
InitLegacy ==
    /\ readyState = [s \in Sockets |-> "NEW"]
    /\ clients = {}
    /\ meta = [s \in Sockets |->
                 [userId |-> UserOf(s), isAdmin |-> FALSE, sessionId |-> None]]
    /\ rooms = <<>>
    /\ chatMessages = <<>>
    /\ sessions =
         [id \in {"s1", "s2"} |->
            [id |-> id,
             ownerId |-> IF id = "s1" THEN "u1" ELSE "u2",
             status |-> "DRAFT",
             chatEnabled |-> TRUE,
             currentSlideId |-> IF id = "s1" THEN "p1" ELSE None,
             updatedAt |-> 0]]
    /\ slides = [id \in {"p1"} |-> [id |-> id, sessionId |-> "s1", order |-> 0]]
    /\ strokes = <<>>
    /\ tasks = <<>>
    /\ reqs = <<>>
    /\ inbox = [s \in Sockets |-> <<>>]
    /\ nextSeq = 1
    /\ frames = <<>>
    /\ nextReq = 1
    /\ nextId = 1
    /\ responses = <<>>
    /\ handshake = [s \in Sockets |-> [token |-> "valid", closeCode |-> 0]]
    /\ \E ns \in {0, StrokeCap - 1, StrokeCap},
          nc \in {0, LegacyChatCap - 1, LegacyChatCap},
          enabled \in BOOLEAN :
             legacy = LegacyAfter(ns, nc, enabled)

\* handleStroke of src/server.js, for a frame of a socket that has or has not
\* subscribed, with or without a stroke object
LegacyStroke(subscribed, stroke) ==
    /\ legacy.events < MaxLegacyEvents
    /\ legacy' =
         IF ~subscribed \/ stroke = None
         THEN [legacy EXCEPT !.events = @ + 1]
         ELSE [legacy EXCEPT
                 !.strokes = shiftOverflow(Append(@, legacy.strokeIds + 1), StrokeCap),
                 !.strokeIds = @ + 1,
                 !.events = @ + 1]
    /\ UNCHANGED gatewayVars

\* handleClear of src/server.js
LegacyClear(subscribed, isAdmin) ==
    /\ legacy.events < MaxLegacyEvents
    /\ legacy' =
         IF ~subscribed \/ ~isAdmin
         THEN [legacy EXCEPT !.events = @ + 1]
         ELSE [legacy EXCEPT !.strokes = <<>>, !.events = @ + 1]
    /\ UNCHANGED gatewayVars

\* handleChatMessage of src/server.js, for a text that is or is not empty
\* once trimmed
LegacyChatMessage(subscribed, text) ==
    /\ legacy.events < MaxLegacyEvents
    /\ legacy' =
         IF ~subscribed \/ ~legacy.chatEnabled \/ text = ""
         THEN [legacy EXCEPT !.events = @ + 1]
         ELSE [legacy EXCEPT
                 !.chatMessages =
                     shiftOverflow(Append(@, legacy.chatIds + 1), LegacyChatCap),
                 !.chatIds = @ + 1,
                 !.events = @ + 1]
    /\ UNCHANGED gatewayVars

\* handleChatEnable of src/server.js
LegacyChatEnable(subscribed, isAdmin, enabled) ==
    /\ legacy.events < MaxLegacyEvents
    /\ legacy' =
         IF ~subscribed \/ ~isAdmin
         THEN [legacy EXCEPT !.events = @ + 1]
         ELSE [legacy EXCEPT !.chatEnabled = enabled, !.events = @ + 1]
    /\ UNCHANGED gatewayVars

\* SpecLegacy: any frames of the four kinds reach the in-memory server
NextLegacy ==
    \/ \E subscribed \in BOOLEAN, stroke \in {"object", None} :
          LegacyStroke(subscribed, stroke)
    \/ \E subscribed \in BOOLEAN, isAdmin \in BOOLEAN :
          LegacyClear(subscribed, isAdmin)
    \/ \E subscribed \in BOOLEAN, text \in {"", "hi"} :
          LegacyChatMessage(subscribed, text)
    \/ \E subscribed \in BOOLEAN, isAdmin \in BOOLEAN, enabled \in BOOLEAN :
          LegacyChatEnable(subscribed, isAdmin, enabled)

SpecLegacy == InitLegacy /\ [][NextLegacy]_vars

(* ------------------------- authorship of strokes ----------------------- *)

\* frames accepted in one run of SpecAuthor
MaxAuthorCmds == 3

\* SpecAuthor: the admin a of s1 draws on a slide of s1 or of s2, moves on to
\* s2 as a viewer or drops out; the viewer b of s2 joins s1, asks for the
\* admin role there and draws on s1
NextAuthor ==
    \/ Close("a")
    \/ /\ nextSeq <= MaxAuthorCmds
       /\ \/ \E slideId \in {"p1", "p2"} : ReceiveStroke("a", "s1", slideId)
          \/ ReceiveStroke("b", "s1", "p1")
          \/ ReceiveSubscribe("a", "s2", FALSE)
          \/ \E asAdmin \in BOOLEAN : ReceiveSubscribe("b", "s1", asAdmin)
    \/ SubscribeStep
    \/ StrokeStep

SpecAuthor == InitStage /\ [][NextAuthor]_vars

(* ----------------------- subscribes to no session ---------------------- *)

\* frames accepted in one run of SpecMissing
MaxMissingCmds == 2

\* SpecMissing: the admin a of s1 and the viewer b of s2 send SUBSCRIBE and
\* SUBSCRIBE_ADMIN for s0, which the store does not hold, and SUBSCRIBE for s2
NextMissing ==
    \/ /\ nextSeq <= MaxMissingCmds
       /\ \/ \E sock \in Sockets, asAdmin \in BOOLEAN :
                ReceiveSubscribe(sock, "s0", asAdmin)
          \/ \E sock \in Sockets : ReceiveSubscribe(sock, "s2", FALSE)
    \/ SubscribeStep

SpecMissing == InitStage /\ [][NextMissing]_vars

(* ------------------------------- claims ------------------------------- *)

\* the positions of inbox[sock]
Positions(sock) == 1 .. Len(inbox[sock])

\* the elements of a sequence
Range(seq) == {seq[i] : i \in 1 .. Len(seq)}

\* C1: each connection is a member of at most one room: no two session ids
\* have room sets that contain the same socket.
OneRoomPerSocket ==
    \A s, t \in DOMAIN rooms : s # t => rooms[s] \cap rooms[t] = {}

\* C2: a STROKE or CHAT_MESSAGE of session S is delivered to a connection
\* only while the connection is a member of room S, of no other room, and
\* subscribed to S; so not to one subscribed to T, and not after it moved
\* from S to T, whatever was in flight.
FanoutTypes == {"STROKE", "CHAT_MESSAGE"}

DeliveredOnlyToMembers ==
    [][\A sock \in Sockets :
         \A i \in (Len(inbox[sock]) + 1) .. Len(inbox'[sock]) :
            inbox'[sock][i].type \in FanoutTypes =>
               LET S == inbox'[sock][i].sessionId
               IN  /\ S \in DOMAIN rooms
                   /\ sock \in rooms[S]
                   /\ meta[sock].sessionId = S
                   /\ \A T \in DOMAIN rooms \ {S} : sock \notin rooms[T]]_vars

\* C2 witness: a's STROKE for s1 has been stored and broadcast after a moved
\* on to s2, and a, open all along, did not receive it
MovedOnBeforeBroadcast ==
    /\ readyState["a"] = "OPEN"
    /\ meta["a"].sessionId = "s2"
    /\ \E i \in 1 .. Len(strokes) : strokes[i].sessionId = "s1"
    /\ tasks = <<>>
    /\ \A i \in Positions("a") : inbox["a"][i].type # "STROKE"

\* C3: when subscribe resumes for a SUBSCRIBE_ADMIN whose session exists and
\* is owned by somebody else, it changes no role and no room and ends with
\* an ERROR to the sender (which a socket closed meanwhile cannot receive).
DeniedAt(k) ==
    /\ tasks[k].pc = "sub_found"
    /\ tasks[k].type = "SUBSCRIBE_ADMIN"
    /\ tasks[k].session # Null
    /\ tasks[k].session.ownerId # UserOf(tasks[k].sock)

NonOwnerAdminDenied ==
    [][\A k \in DOMAIN tasks :
         (DeniedAt(k) /\ (k \notin DOMAIN tasks' \/ tasks'[k] # tasks[k])) =>
            /\ meta' = meta
            /\ rooms' = rooms
            /\ k \notin DOMAIN tasks'
            /\ inbox' =
                 IF readyState[tasks[k].sock] = "OPEN"
                 THEN [inbox EXCEPT ![tasks[k].sock] =
                         Append(@, ErrorMsg(k, "Admin access denied"))]
                 ELSE inbox]_vars

\* C3 witness: a connection subscribed as admin to its own session was denied
\* admin access to another one and is still where it was
DeniedWhileElsewhere ==
    \E sock \in Sockets :
       /\ readyState[sock] = "OPEN"
       /\ meta[sock].isAdmin
       /\ meta[sock].sessionId \in DOMAIN rooms
       /\ sock \in rooms[meta[sock].sessionId]
       /\ Len(inbox[sock]) >= 2
       /\ inbox[sock][1].type = "SUBSCRIBED"
       /\ inbox[sock][Len(inbox[sock])].type = "ERROR"
       /\ inbox[sock][Len(inbox[sock])].data.message = "Admin access denied"

\* C4: a STROKE, CLEAR_SLIDE or CHAT_ENABLE frame of a connection whose role
\* is viewer is answered at once with one ERROR to the sender alone, starts
\* no handler, writes nothing to the store or the histories, and no frame
\* other than that ERROR ever results from it.
AdminOnly == {"STROKE", "CLEAR_SLIDE", "CHAT_ENABLE"}

ViewerFrame(f) == f.type \in AdminOnly /\ ~f.isAdmin

ViewerCommandRejected ==
    /\ [][(nextSeq' = nextSeq + 1 /\ ViewerFrame(frames'[nextSeq])) =>
            /\ \E msg \in {ErrorMsg(nextSeq, "Admin privileges required")} :
                 inbox' = [inbox EXCEPT ![frames'[nextSeq].sock] = Append(@, msg)]
            /\ UNCHANGED <<tasks, sessions, slides, strokes, chatMessages,
                           rooms, meta>>]_vars
    /\ [](\A k \in DOMAIN frames :
            ViewerFrame(frames[k]) =>
               /\ k \notin DOMAIN tasks
               /\ \A sock \in Sockets : \A i \in Positions(sock) :
                     inbox[sock][i].cmd = k =>
                        sock = frames[k].sock /\ inbox[sock][i].type = "ERROR")

\* C4 witness: a connection subscribed as a viewer has sent a STROKE
ViewerSentStroke ==
    \E k \in DOMAIN frames :
       /\ frames[k].type = "STROKE"
       /\ ~frames[k].isAdmin
       /\ frames[k].joined = frames[k].sessionId
       /\ \E i \in Positions(frames[k].sock) :
             inbox[frames[k].sock][i].cmd = k

\* C5: a socket whose close event has been handled is a member of no room.
ClosedSocketInNoRoom ==
    \A sock \in Sockets :
       readyState[sock] = "CLOSED" =>
          \A s \in DOMAIN rooms : sock \notin rooms[s]

\* C6: a connection receives no SESSION_STARTED or SESSION_ENDED of a session
\* before it has received the SUBSCRIBED of its subscription to that session.
Lifecycle == {"SESSION_STARTED", "SESSION_ENDED"}

SubscribedBeforeLifecycle ==
    \A sock \in Sockets : \A i \in Positions(sock) :
       inbox[sock][i].type \in Lifecycle =>
          \E j \in 1 .. (i - 1) :
             /\ inbox[sock][j].type = "SUBSCRIBED"
             /\ inbox[sock][j].sessionId = inbox[sock][i].sessionId

\* C7: the frames a SUBSCRIBE or SUBSCRIBE_ADMIN produces go to its sender
\* alone, none before it completes; once it has completed they are one ERROR,
\* or (the socket being closed) nothing, or one SUBSCRIBED, followed directly
\* by one SESSION_STARTED exactly if it reports status LIVE, by one
\* SESSION_ENDED exactly if it reports ENDED, and by nothing if DRAFT.
RepliesAt(sock, k) == {i \in Positions(sock) : inbox[sock][i].cmd = k}

SnapshotThenLifecycle(sock, P) ==
    LET first == CHOOSE i \in P : \A j \in P : i <= j
        m     == inbox[sock][first]
    IN  /\ m.type = "SUBSCRIBED"
        /\ \/ m.data.status = "DRAFT" /\ P = {first}
           \/ /\ m.data.status = "LIVE"
              /\ P = {first, first + 1}
              /\ inbox[sock][first + 1].type = "SESSION_STARTED"
              /\ inbox[sock][first + 1].sessionId = m.sessionId
           \/ /\ m.data.status = "ENDED"
              /\ P = {first, first + 1}
              /\ inbox[sock][first + 1].type = "SESSION_ENDED"
              /\ inbox[sock][first + 1].sessionId = m.sessionId

SubscribeRepliesExact ==
    \A k \in DOMAIN frames :
       frames[k].type \in {"SUBSCRIBE", "SUBSCRIBE_ADMIN"} =>
          LET sock == frames[k].sock
              P    == RepliesAt(sock, k)
          IN  /\ \A other \in Sockets \ {sock} : RepliesAt(other, k) = {}
              /\ k \in DOMAIN tasks => P = {}
              /\ k \notin DOMAIN tasks =>
                    \/ P = {} /\ readyState[sock] = "CLOSED"
                    \/ \E i \in P : P = {i} /\ inbox[sock][i].type = "ERROR"
                    \/ P # {} /\ SnapshotThenLifecycle(sock, P)

\* C7 witness: a subscribe that read the session live, answered after the
\* session had been ended
LiveSnapshotOfEndedSession ==
    \E sock \in Sockets : \E i \in Positions(sock) :
       /\ inbox[sock][i].type = "SUBSCRIBED"
       /\ inbox[sock][i].data.status = "LIVE"
       /\ sessions[inbox[sock][i].sessionId].status = "ENDED"
       /\ i + 1 \in Positions(sock)
       /\ inbox[sock][i + 1].type = "SESSION_STARTED"
       /\ inbox[sock][i + 1].cmd = inbox[sock][i].cmd

\* C8: the broadcasts of one session reach every connection in the order in
\* which the gateway accepted the commands that caused them.
Broadcasts == {"STROKE", "CLEAR_SLIDE", "CHAT_MESSAGE"}

BroadcastsInAcceptanceOrder ==
    \A sock \in Sockets : \A i, j \in Positions(sock) :
       (/\ i < j
        /\ inbox[sock][i].type \in Broadcasts
        /\ inbox[sock][j].type \in Broadcasts
        /\ inbox[sock][i].sessionId = inbox[sock][j].sessionId)
       => inbox[sock][i].cmd < inbox[sock][j].cmd

\* C9: for an open connection subscribed to a session, none of whose
\* subscribes is still running and which has its SUBSCRIBED, every stroke
\* stored for the session's current slide whose STROKE handler has finished
\* is in the strokes of a SUBSCRIBED it received or was delivered to it as a
\* STROKE.
Seen(sock, r) ==
    \E i \in Positions(sock) :
       \/ /\ inbox[sock][i].type = "SUBSCRIBED"
          /\ inbox[sock][i].sessionId = r.sessionId
          /\ r \in Range(inbox[sock][i].data.strokes)
       \/ /\ inbox[sock][i].type = "STROKE"
          /\ inbox[sock][i].data.stroke = r

Settled(sock) ==
    /\ readyState[sock] = "OPEN"
    /\ meta[sock].sessionId # None
    /\ \A k \in DOMAIN tasks :
          tasks[k].sock = sock => tasks[k].type \notin {"SUBSCRIBE", "SUBSCRIBE_ADMIN"}
    /\ \E i \in Positions(sock) :
          /\ inbox[sock][i].type = "SUBSCRIBED"
          /\ inbox[sock][i].sessionId = meta[sock].sessionId

NoStrokeLost ==
    \A sock \in Sockets :
       Settled(sock) =>
          \A r \in Range(strokes) :
             (/\ r.sessionId = meta[sock].sessionId
              /\ r.slideId = sessions[r.sessionId].currentSlideId
              /\ \A k \in DOMAIN tasks : tasks[k].created # r)
             => Seen(sock, r)

\* C9 witness: b joined while a stroke was being processed: the STROKE
\* reached it before its SUBSCRIBED, whose snapshot does not hold the stroke
StrokeOvertookSnapshot ==
    /\ Settled("b")
    /\ \E i, j \in Positions("b") :
          /\ i < j
          /\ inbox["b"][i].type = "STROKE"
          /\ inbox["b"][j].type = "SUBSCRIBED"
          /\ inbox["b"][i].data.stroke \notin Range(inbox["b"][j].data.strokes)
          /\ inbox["b"][i].data.stroke \in Range(strokes)

\* C10: the status of a session only moves forward, DRAFT to LIVE to ENDED.
Rank(status) ==
    IF status = "DRAFT" THEN 0 ELSE IF status = "LIVE" THEN 1 ELSE 2

StatusMonotonic ==
    [][\A s \in DOMAIN sessions :
         Rank(sessions'[s].status) >= Rank(sessions[s].status)]_vars

\* the frames numbered 1 and 2 are CHAT_ENABLE {enabled: true} of the admin a,
\* both handled to the end, and no other CHAT_ENABLE was accepted
TwoEnablesDone ==
    /\ {1, 2} \subseteq DOMAIN frames
    /\ \A k \in {1, 2} : /\ frames[k].type = "CHAT_ENABLE"
                         /\ frames[k].sock = "a"
                         /\ frames[k].isAdmin
                         /\ frames[k].enabled
                         /\ k \notin DOMAIN tasks
    /\ \A k \in DOMAIN frames \ {1, 2} : frames[k].type # "CHAT_ENABLE"

\* C11: with the chat of s1 disabled at the start, two CHAT_ENABLE
\* {enabled: true} sent back to back by the admin update the stored session
\* exactly once
TwoEnablesOneWrite ==
    TwoEnablesDone => sessions["s1"].updatedAt = 1

\* C12: a CHAT_ENABLE whose value equals the stored flag is still broadcast to
\* the room: the step that finds the flag unchanged appends CHAT_ENABLE with
\* that value to the inbox of every open member of the room
UnchangedToggleRebroadcast ==
    [][\A k \in DOMAIN tasks :
          (/\ tasks[k].pc = "toggle_found"
           /\ k \notin DOMAIN tasks'
           /\ tasks[k].session # Null
           /\ tasks[k].session.chatEnabled = tasks[k].enabled)
          => \A c \in Sockets :
                (/\ tasks[k].sessionId \in DOMAIN rooms
                 /\ c \in rooms[tasks[k].sessionId]
                 /\ readyState[c] = "OPEN")
                => /\ Len(inbox'[c]) = Len(inbox[c]) + 1
                   /\ inbox'[c][Len(inbox'[c])].type = "CHAT_ENABLE"
                   /\ inbox'[c][Len(inbox'[c])].data.enabled = tasks[k].enabled]_vars

\* no CHAT_ENABLE {enabled: true} has been accepted: the flag of s1, false at
\* the start, has been false ever since
NeverEnabled ==
    \A k \in DOMAIN frames : ~(frames[k].type = "CHAT_ENABLE" /\ frames[k].enabled)

\* C13: a CHAT_MESSAGE for a session whose chat is disabled, from viewer or
\* admin alike, is answered with ERROR to the sender, is not appended to the
\* history and is broadcast to nobody
DisabledChatRejected ==
    /\ [][\A k \in DOMAIN tasks :
            (/\ tasks[k].pc = "chat_found"
             /\ k \notin DOMAIN tasks'
             /\ tasks[k].session # Null
             /\ ~tasks[k].session.chatEnabled)
            => /\ chatMessages' = chatMessages
               /\ \A c \in Sockets \ {tasks[k].sock} : inbox'[c] = inbox[c]
               /\ readyState[tasks[k].sock] = "OPEN"
                  => /\ Len(inbox'[tasks[k].sock]) = Len(inbox[tasks[k].sock]) + 1
                     /\ inbox'[tasks[k].sock][Len(inbox'[tasks[k].sock])].type = "ERROR"]_vars
    /\ [](NeverEnabled
           => /\ chatMessages = <<>>
              /\ \A c \in Sockets : \A i \in Positions(c) :
                    inbox[c][i].type # "CHAT_MESSAGE"
              /\ \A k \in DOMAIN frames :
                    (/\ frames[k].type = "CHAT_MESSAGE"
                     /\ k \notin DOMAIN tasks
                     /\ readyState[frames[k].sock] = "OPEN")
                    => \E i \in Positions(frames[k].sock) :
                          /\ inbox[frames[k].sock][i].cmd = k
                          /\ inbox[frames[k].sock][i].type = "ERROR")

\* the admin itself wrote to the disabled chat and was refused
AdminChatRejected ==
    \E i \in Positions("a") :
       /\ inbox["a"][i].type = "ERROR"
       /\ inbox["a"][i].data.message = "Chat is disabled for this session"

\* frame j is a STROKE for an existing slide of its session, sent by the
\* session's owner as its next frame after its SUBSCRIBE_ADMIN i; the socket
\* is still open, the STROKE is handled and nothing was cleared
StrokeFollowsSubscribeAdmin(i, j) ==
    /\ i < j
    /\ frames[i].sock = frames[j].sock
    /\ frames[i].type = "SUBSCRIBE_ADMIN"
    /\ frames[i].sessionId \in DOMAIN sessions
    /\ sessions[frames[i].sessionId].ownerId = UserOf(frames[i].sock)
    /\ frames[j].type = "STROKE"
    /\ frames[j].sessionId = frames[i].sessionId
    /\ frames[j].slideId \in DOMAIN slides
    /\ slides[frames[j].slideId].sessionId = frames[j].sessionId
    /\ \A m \in DOMAIN frames : i < m /\ m < j => frames[m].sock # frames[i].sock
    /\ \A m \in DOMAIN frames : frames[m].type # "CLEAR_SLIDE"
    /\ readyState[frames[j].sock] = "OPEN"
    /\ j \notin DOMAIN tasks

\* socket c sent its frames before frame i, all are handled, and it is an open
\* member of the room whose latest snapshot does not list stroke j
WatchedFrom(c, i, j) ==
    /\ readyState[c] = "OPEN"
    /\ frames[j].sessionId \in DOMAIN rooms
    /\ c \in rooms[frames[j].sessionId]
    /\ \A m \in DOMAIN frames : frames[m].sock = c => m < i /\ m \notin DOMAIN tasks
    /\ \A n \in Positions(c) :
          inbox[c][n].type = "SUBSCRIBED"
          => \A x \in 1..Len(inbox[c][n].data.strokes) :
                inbox[c][n].data.strokes[x].cmd # j

\* C14: a STROKE the owner sends after its SUBSCRIBE_ADMIN is accepted: it
\* gets no ERROR, is stored exactly once, and a viewer already watching the
\* session receives exactly one STROKE event for it
StrokeAfterSubscribeAdminAccepted ==
    \A i, j \in DOMAIN frames :
       StrokeFollowsSubscribeAdmin(i, j)
       => /\ \A n \in Positions(frames[j].sock) :
                ~(inbox[frames[j].sock][n].cmd = j /\ inbox[frames[j].sock][n].type = "ERROR")
          /\ Cardinality({x \in 1..Len(strokes) : strokes[x].cmd = j}) = 1
          /\ \A c \in Sockets \ {frames[j].sock} :
                WatchedFrom(c, i, j)
                => Cardinality({n \in Positions(c) :
                                  inbox[c][n].type = "STROKE" /\ inbox[c][n].cmd = j}) = 1

\* the stored slides of a session
SlidesIn(sid) == {p \in DOMAIN slides : slides[p].sessionId = sid}

\* C15: in every state of the store a session's currentSlideId is null or the
\* id of a stored slide of that same session
CurrentSlideExists ==
    \A sid \in DOMAIN sessions :
       \/ sessions[sid].currentSlideId = None
       \/ sessions[sid].currentSlideId \in SlidesIn(sid)

\* C16: in every state of the store the order values of a session's slides
\* are exactly 0..N-1, each taken once
SlideOrderContiguous ==
    \A sid \in DOMAIN sessions :
       /\ {slides[p].order : p \in SlidesIn(sid)} = 0..(Cardinality(SlidesIn(sid)) - 1)
       /\ \A p, q \in SlidesIn(sid) : slides[p].order = slides[q].order => p = q

\* request n commits the deletion of the slide that is the current slide of
\* its session
DeletesCurrent(n) ==
    /\ reqs[n].pc = "tx"
    /\ n \in DOMAIN reqs'
    /\ reqs'[n].pc = "payload"
    /\ sessions[reqs[n].sessionId].currentSlideId = reqs[n].slideId

StrokesHaveSlides ==
    \A x \in 1..Len(strokes) : strokes[x].slideId \in DOMAIN slides

\* a STROKE that had found its slide was refused by the store because the
\* slide was deleted before the insert
StrokeRefusedAfterDelete ==
    /\ "p1" \notin DOMAIN slides
    /\ \E i \in Positions("a") :
          /\ inbox["a"][i].type = "ERROR"
          /\ inbox["a"][i].data.message = "Internal server error"

\* the STROKE frames for slide pid of session sid that passed the role and
\* room checks and have been handled to the end
StrokesAccepted(sid, pid) ==
    {k \in DOMAIN frames :
        /\ frames[k].type = "STROKE"
        /\ frames[k].sessionId = sid
        /\ frames[k].slideId = pid
        /\ frames[k].isAdmin
        /\ frames[k].joined = sid
        /\ k \notin DOMAIN tasks}

\* no STROKE is under way and no CLEAR_SLIDE was ever accepted
StrokesSettled ==
    /\ \A k \in DOMAIN tasks : tasks[k].type # "STROKE"
    /\ \A k \in DOMAIN frames : frames[k].type # "CLEAR_SLIDE"

\* C19: after N accepted STROKE commands for a slide and no CLEAR_SLIDE, the
\* stroke history of the slide (what the stroke.findMany of a SUBSCRIBED
\* snapshot returns; the store keeps it without a cap) holds these N strokes
\* in the order the commands were submitted, and so does every snapshot sent
StrokeHistoryInSubmissionOrder ==
    /\ StrokesSettled
       => \A pid \in DOMAIN slides :
             LET h == findStrokes(slides[pid].sessionId, pid)
             IN  /\ Len(h) = Cardinality(StrokesAccepted(slides[pid].sessionId, pid))
                 /\ \A x, y \in 1..Len(h) : x < y => h[x].cmd < h[y].cmd
    /\ \A c \in Sockets : \A i \in Positions(c) :
          inbox[c][i].type = "SUBSCRIBED"
          => \A x, y \in 1..Len(inbox[c][i].data.strokes) :
                x < y => inbox[c][i].data.strokes[x].cmd
                            < inbox[c][i].data.strokes[y].cmd

\* the CHAT_MESSAGE frames for session sid that passed the room check and
\* have been handled to the end
ChatsAccepted(sid) ==
    {k \in DOMAIN frames :
        /\ frames[k].type = "CHAT_MESSAGE"
        /\ frames[k].sessionId = sid
        /\ frames[k].joined = sid
        /\ k \notin DOMAIN tasks}

\* the ChatCap most recent of a set of frame numbers
MostRecent(acc) == {k \in acc : Cardinality({j \in acc : j > k}) < ChatCap}

\* C20: after N accepted CHAT_MESSAGE commands for a session whose chat is
\* enabled, the history of the session holds the most recent min(N, 200) of
\* them, in the order the commands were accepted
ChatHistoryInAcceptanceOrder ==
    \A sid \in DOMAIN sessions :
       LET h == IF sid \in DOMAIN chatMessages THEN chatMessages[sid] ELSE <<>>
       IN  /\ Len(h) <= ChatCap
           /\ (\A k \in DOMAIN tasks : tasks[k].type # "CHAT_MESSAGE")
              => {h[x].id : x \in 1..Len(h)} = MostRecent(ChatsAccepted(sid))
           /\ \A x, y \in 1..Len(h) : x < y => h[x].id < h[y].id

\* C21: broadcast(sessionId, event, exclude) delivers the event exactly once
\* to every socket that is open and in the room of sessionId when it is
\* called, except the excluded one, and to no other socket; where sessionId
\* has no room it does nothing.
BroadcastTargets(sessionId, exclude) ==
    IF sessionId \in DOMAIN rooms
    THEN {c \in rooms[sessionId] : readyState[c] = "OPEN" /\ c # exclude}
    ELSE {}

BroadcastExact ==
    [][\A n \in DOMAIN reqs :
         (reqs[n].op = "broadcast" /\ n \notin DOMAIN reqs') =>
            /\ \A c \in Sockets :
                 IF c \in BroadcastTargets(reqs[n].sessionId, reqs[n].exclude)
                 THEN /\ Len(inbox'[c]) = Len(inbox[c]) + 1
                      /\ SubSeq(inbox'[c], 1, Len(inbox[c])) = inbox[c]
                      /\ inbox'[c][Len(inbox'[c])].type = "EVENT"
                      /\ inbox'[c][Len(inbox'[c])].sessionId = reqs[n].sessionId
                      /\ inbox'[c][Len(inbox'[c])].data.call = n
                 ELSE inbox'[c] = inbox[c]
            /\ UNCHANGED <<rooms, readyState, clients, meta>>]_vars

\* two calls have returned: one delivered to b and not to a, open and in the
\* same room but excluded, the other found nobody to deliver to
ExcludedSocketSkipped ==
    /\ \E sid \in DOMAIN rooms : rooms[sid] = {"a", "b"}
    /\ readyState["a"] = "OPEN"
    /\ readyState["b"] = "OPEN"
    /\ inbox["a"] = <<>>
    /\ Len(inbox["b"]) = 1
    /\ nextReq = 3
    /\ reqs = <<>>

\* C22: the registry keeps no empty room: every session id in rooms maps to a
\* set with at least one connection, a socket the gateway has registered and
\* whose close it has not handled; a room is gone once its last connection
\* has left.
NoEmptyRoom ==
    \A sid \in DOMAIN rooms :
       /\ rooms[sid] # {}
       /\ \E sock \in rooms[sid] : sock \in clients /\ readyState[sock] = "OPEN"

\* C23: a STROKE or CLEAR_SLIDE of an admin that names a session other than
\* the one the connection is subscribed to, or a slide that does not exist or
\* belongs to another session, yields an ERROR to the sender, creates or
\* deletes no stroke in the store and broadcasts nothing.
Misdirected(f) ==
    /\ f.type \in {"STROKE", "CLEAR_SLIDE"}
    /\ f.isAdmin
    /\ \/ f.joined # f.sessionId
       \/ f.slideId \notin DOMAIN slides
       \/ slides[f.slideId].sessionId # f.sessionId

MisdirectedCommandRejected ==
    /\ [][strokes' # strokes =>
            \E k \in DOMAIN tasks :
               /\ ~Misdirected(frames[k])
               /\ tasks[k].pc \in {"stroke_create", "clear_delete"}
               /\ tasks'[k].pc # tasks[k].pc]_vars
    /\ [](\A k \in DOMAIN frames :
            Misdirected(frames[k]) =>
               /\ \A i \in 1 .. Len(strokes) : strokes[i].cmd # k
               /\ \A sock \in Sockets : \A i \in Positions(sock) :
                     inbox[sock][i].cmd = k =>
                        sock = frames[k].sock /\ inbox[sock][i].type = "ERROR"
               /\ k \notin DOMAIN tasks =>
                     Cardinality({i \in Positions(frames[k].sock) :
                                     inbox[frames[k].sock][i].cmd = k}) = 1)

\* a STROKE for the session a has not joined and a CLEAR_SLIDE for a slide of
\* that session have both been answered, and both stored strokes are there
ForeignSlideKept ==
    /\ \E k \in DOMAIN frames :
          /\ frames[k].type = "STROKE"
          /\ frames[k].sessionId = "s2"
          /\ frames[k].slideId = "p2"
    /\ \E k \in DOMAIN frames :
          /\ frames[k].type = "CLEAR_SLIDE"
          /\ frames[k].sessionId = "s1"
          /\ frames[k].slideId = "p2"
    /\ tasks = <<>>
    /\ Len(inbox["a"]) = 2
    /\ inbox["b"] = <<>>
    /\ Len(strokes) = 2

\* C24: a connection attempt whose token is absent, fails verification or
\* names an identity the store lacks is closed with code 4401, is never
\* registered, and none of its frames is taken up: it joins no room, writes
\* nothing and is sent nothing.
Unauthorized(sock) == handshake[sock].token # "valid"

UnauthorizedTurnedAway ==
    /\ [][\A sock \in Sockets :
            (Unauthorized(sock) /\ readyState'[sock] # readyState[sock]) =>
               /\ readyState'[sock] = "CLOSED"
               /\ handshake'[sock].closeCode = 4401
               /\ UNCHANGED <<clients, meta, rooms, tasks, inbox, frames,
                              strokes, chatMessages, sessions>>]_vars
    /\ [](\A sock \in Sockets :
            Unauthorized(sock) =>
               /\ readyState[sock] # "OPEN"
               /\ sock \notin clients
               /\ \A sid \in DOMAIN rooms : sock \notin rooms[sid]
               /\ \A k \in DOMAIN frames : frames[k].sock # sock
               /\ \A k \in DOMAIN tasks : tasks[k].sock # sock
               /\ inbox[sock] = <<>>)

\* b, whose token names a user the store lacks, was closed with 4401 while a
\* sits in room s1 and has chatted there
OrphanTokenClosed ==
    /\ handshake["b"] = [token |-> "orphan", closeCode |-> 4401]
    /\ readyState["b"] = "CLOSED"
    /\ "s1" \in DOMAIN rooms
    /\ rooms["s1"] = {"a"}
    /\ \E i \in Positions("a") : inbox["a"][i].type = "CHAT_MESSAGE"

\* C25: an authenticated connection starts in no room with the viewer role:
\* until one of its own SUBSCRIBE or SUBSCRIBE_ADMIN commands has passed its
\* checks it is a member of no room and is sent no event of any session,
\* only the ERROR replies to its own frames.
Subscribes == {"SUBSCRIBE", "SUBSCRIBE_ADMIN"}

NeverSubscribed(sock) ==
    \A k \in DOMAIN frames :
       (frames[k].sock = sock /\ frames[k].type \in Subscribes) =>
          \/ k \in DOMAIN tasks /\ tasks[k].pc \in {"sub_find", "sub_found"}
          \/ \E i \in Positions(sock) :
                inbox[sock][i].cmd = k /\ inbox[sock][i].type = "ERROR"

UnsubscribedIsolated ==
    \A sock \in Sockets :
       (readyState[sock] = "OPEN" /\ NeverSubscribed(sock)) =>
          /\ sock \in clients
          /\ ~meta[sock].isAdmin
          /\ meta[sock].sessionId = None
          /\ \A sid \in DOMAIN rooms : sock \notin rooms[sid]
          /\ \A i \in Positions(sock) :
                /\ inbox[sock][i].type = "ERROR"
                /\ inbox[sock][i].cmd \in DOMAIN frames
                /\ frames[inbox[sock][i].cmd].sock = sock

\* b is connected and has not subscribed; a chat message went out to room
\* s1, where a sits, and b was sent nothing
BystanderHeardNothing ==
    /\ readyState["b"] = "OPEN"
    /\ \A k \in DOMAIN frames : frames[k].sock = "a"
    /\ "s1" \in DOMAIN rooms
    /\ "a" \in rooms["s1"]
    /\ \E i \in Positions("a") : inbox["a"][i].type = "CHAT_MESSAGE"
    /\ inbox["b"] = <<>>

\* a step in which sock is sent one ERROR for the frame just taken up and
\* nothing else changes: no room, role, history or store row, no handler is
\* started, no socket is closed
OneErrorNothingElse(sock) ==
    /\ Len(inbox'[sock]) = Len(inbox[sock]) + 1
    /\ SubSeq(inbox'[sock], 1, Len(inbox[sock])) = inbox[sock]
    /\ inbox'[sock][Len(inbox'[sock])].type = "ERROR"
    /\ inbox'[sock][Len(inbox'[sock])].cmd = nextSeq
    /\ \A c \in Sockets \ {sock} : inbox'[c] = inbox[c]
    /\ readyState'[sock] = "OPEN"
    /\ UNCHANGED <<rooms, meta, clients, readyState, chatMessages, sessions,
                   slides, strokes, tasks, handshake>>

\* the known types, and the spellings of them that differ only in case
KnownTypes == {"SUBSCRIBE", "SUBSCRIBE_ADMIN", "STROKE", "CLEAR_SLIDE",
               "CHAT_MESSAGE", "CHAT_ENABLE"}

SpelledAs == {<<"subscribe", "SUBSCRIBE">>, <<"Subscribe_Admin", "SUBSCRIBE_ADMIN">>,
              <<"Stroke", "STROKE">>, <<"clear_slide", "CLEAR_SLIDE">>,
              <<"CHAT_MESSAGE", "CHAT_MESSAGE">>, <<"Chat_Enable", "CHAT_ENABLE">>}

UnknownSpelling(type) == type # None /\ \A p \in SpelledAs : p[1] # type

\* C26: a frame whose type, compared without regard to case, is none of the
\* six known types yields exactly one ERROR to the sender, changes nothing
\* else and leaves the connection open; a known type in lower or mixed case
\* is handled as that type.
UnknownTypeRejected ==
    [][\A sock \in Sockets : \A data \in Wire :
         (data.json /\ HandleMessage(sock, data)) =>
            /\ UnknownSpelling(data.type) =>
                  /\ OneErrorNothingElse(sock)
                  /\ frames'[nextSeq].type \notin KnownTypes
            /\ \A p \in SpelledAs :
                  data.type = p[1] =>
                     /\ frames'[nextSeq].type = p[2]
                     /\ \A i \in (Len(inbox[sock]) + 1) .. Len(inbox'[sock]) :
                           "type" \notin DOMAIN inbox'[sock][i].data]_vars

\* a frame spelled ping was answered with an ERROR, a frame spelled Stroke
\* stored a stroke, and the sender is still connected
PingRefusedStrokeStored ==
    /\ \E k \in DOMAIN frames :
          /\ "data" \in DOMAIN frames[k]
          /\ frames[k].data.type = "ping"
          /\ \E i \in Positions("a") :
                inbox["a"][i].cmd = k /\ inbox["a"][i].type = "ERROR"
    /\ \E k \in DOMAIN frames :
          /\ frames[k].type = "STROKE"
          /\ \E i \in 1 .. Len(strokes) : strokes[i].cmd = k
    /\ readyState["a"] = "OPEN"
    /\ "a" \in rooms["s1"]

\* C27: a frame that is not valid JSON, or whose payload fails the schema
\* of its command (a subscribe without room id, a chat text that is empty
\* once trimmed or longer than 1000 characters), yields exactly one ERROR to
\* the sender, changes nothing else and does not close the connection.
FailsSchema(data) ==
    \E p \in SpelledAs :
       /\ data.type = p[1]
       /\ \/ data.id = None
          \/ p[2] \in {"STROKE", "CLEAR_SLIDE"} /\ data.slideId = None
          \/ p[2] = "CHAT_ENABLE" /\ data.enabled = None
          \/ p[2] = "CHAT_MESSAGE" /\ (data.message < 1 \/ data.message > 1000)

InvalidFrameRejected ==
    [][\A sock \in Sockets : \A data \in Wire :
         ((~data.json \/ FailsSchema(data)) /\ HandleMessage(sock, data)) =>
            OneErrorNothingElse(sock)]_vars

\* text that is not JSON and a chat text of 1001 characters have both been
\* answered with an ERROR; the sender is still connected, admin of s1, and
\* nothing was stored or sent to anyone else
GarbageAndLongTextRefused ==
    /\ \E k \in DOMAIN frames :
          "data" \in DOMAIN frames[k] /\ ~frames[k].data.json
    /\ \E k \in DOMAIN frames :
          "data" \in DOMAIN frames[k] /\ frames[k].data.message = 1001
    /\ Len(inbox["a"]) = 2
    /\ \A i \in Positions("a") : inbox["a"][i].type = "ERROR"
    /\ readyState["a"] = "OPEN"
    /\ meta["a"].isAdmin
    /\ chatMessages = <<>>
    /\ inbox["b"] = <<>>

\* C28: a REST start of a session its owner finds live or ended, and a REST
\* end of a session its owner finds not live, is answered 400, leaves the
\* stored session as it is and broadcasts nothing.
WrongStatus(r) ==
    /\ r.pc = "found"
    /\ r.session # Null
    /\ r.session.ownerId = r.user
    /\ \/ r.op = "start" /\ r.session.status \in {"LIVE", "ENDED"}
       \/ r.op = "end" /\ r.session.status \in {"DRAFT", "ENDED"}

WrongStatusRefused ==
    [][\A n \in DOMAIN reqs :
         (WrongStatus(reqs[n]) /\ (n \notin DOMAIN reqs' \/ reqs'[n] # reqs[n])) =>
            /\ n \notin DOMAIN reqs'
            /\ n \in DOMAIN responses'
            /\ responses'[n] = 400
            /\ UNCHANGED <<sessions, slides, inbox>>]_vars

\* a request on the ended session s1 was answered 400 while a sat in its
\* room: the row has never been updated and a was sent no lifecycle event
EndedSessionLeftAlone ==
    /\ \E n \in DOMAIN responses : responses[n] = 400
    /\ reqs = <<>>
    /\ sessions["s1"].status = "ENDED"
    /\ sessions["s1"].updatedAt = 0
    /\ "s1" \in DOMAIN rooms
    /\ "a" \in rooms["s1"]
    /\ \A i \in Positions("a") : inbox["a"][i].type \notin Lifecycle

\* C29: every SESSION_STARTED, SESSION_ENDED and SLIDE_CHANGED that comes of
\* a REST request goes through broadcast to the room of the request's
\* session, and only after the request's store update has committed; a
\* request that fails (session not found, caller not the owner, wrong
\* status) broadcasts nothing.
RestEvents == {"SESSION_STARTED", "SESSION_ENDED", "SLIDE_CHANGED"}

\* the request's own write is in the store, and msg is an event of its kind
Committed(r, msg) ==
    CASE r.op = "start" ->
            /\ msg.type \in {"SESSION_STARTED", "SLIDE_CHANGED"}
            /\ r.updated # Null
            /\ r.updated.status = "LIVE"
            /\ sessions[r.sessionId].updatedAt >= r.updated.updatedAt
      [] r.op = "end" ->
            /\ msg.type = "SESSION_ENDED"
            /\ r.updated # Null
            /\ r.updated.status = "ENDED"
            /\ sessions[r.sessionId].updatedAt >= r.updated.updatedAt
      [] r.op = "create" ->
            /\ msg.type = "SLIDE_CHANGED"
            /\ r.created \in DOMAIN slides
      [] r.op = "delete" ->
            /\ msg.type = "SLIDE_CHANGED"
            /\ r.slideId \notin DOMAIN slides
      [] OTHER -> FALSE

MustFail(r) ==
    /\ r.pc = "found"
    /\ \/ r.session = Null
       \/ r.session.ownerId # r.user
       \/ r.op = "start" /\ r.session.status # "DRAFT"
       \/ r.op = "end" /\ r.session.status # "LIVE"

RestEventsAfterCommit ==
    /\ [][\A c \in Sockets :
            \A i \in (Len(inbox[c]) + 1) .. Len(inbox'[c]) :
               inbox'[c][i].type \in RestEvents =>
                  \E n \in DOMAIN reqs :
                     /\ n \notin DOMAIN reqs'
                     /\ responses'[n] \in {200, 201}
                     /\ inbox'[c][i].sessionId = reqs[n].sessionId
                     /\ reqs[n].sessionId \in DOMAIN rooms
                     /\ c \in rooms[reqs[n].sessionId]
                     /\ Committed(reqs[n], inbox'[c][i])
                     /\ \A d \in rooms[reqs[n].sessionId] :
                           readyState[d] = "OPEN" => inbox'[d] # inbox[d]]_vars
    /\ [][\A n \in DOMAIN reqs :
            (MustFail(reqs[n]) /\ (n \notin DOMAIN reqs' \/ reqs'[n] # reqs[n])) =>
               /\ n \notin DOMAIN reqs'
               /\ responses'[n] \in {400, 403, 404}
               /\ UNCHANGED <<inbox, sessions, slides>>]_vars

\* the stranger's request on s1 was answered 403 and the owner's went
\* through: a, in room s1, got its event and b, in room s2, got nothing
OwnerHeardStrangerNot ==
    /\ \E n \in DOMAIN responses : responses[n] = 403
    /\ \E n \in DOMAIN responses : responses[n] \in {200, 201}
    /\ reqs = <<>>
    /\ inbox["a"] # <<>>
    /\ \A i \in Positions("a") : inbox["a"][i].type \in RestEvents
    /\ inbox["b"] = <<>>

\* C30: in the in-memory server, after any accepted stroke and chat_message
\* events the session holds at most 5000 strokes and at most 500 chat
\* messages, and a buffer that overflows gives up its oldest entry.
PushedWithin(old, new, id, cap) ==
    new = IF Len(old) < cap THEN Append(old, id) ELSE Append(Tail(old), id)

LegacyBuffersBounded ==
    /\ [](Len(legacy.strokes) <= 5000 /\ Len(legacy.chatMessages) <= 500)
    /\ [][/\ legacy'.strokeIds # legacy.strokeIds =>
               PushedWithin(legacy.strokes, legacy'.strokes, legacy'.strokeIds, 5000)
          /\ legacy'.chatIds # legacy.chatIds =>
               PushedWithin(legacy.chatMessages, legacy'.chatMessages,
                            legacy'.chatIds, 500)]_vars

\* two strokes came to a full stroke buffer and one message to a full chat
\* buffer: both are full still, less their two oldest and their oldest entry
OldestEntriesGone ==
    /\ Len(legacy.strokes) = 5000
    /\ legacy.strokes[1] = 3
    /\ legacy.strokes[5000] = 5002
    /\ Len(legacy.chatMessages) = 500
    /\ legacy.chatMessages[1] = 2
    /\ legacy.chatMessages[500] = 501

\* C31: a joining connection misses no lifecycle change: once nothing is in
\* flight, a connection subscribed to a session that a REST start has made
\* live either holds a SUBSCRIBED snapshot that says live or has been sent
\* SESSION_STARTED for it.
NoLifecycleMissed ==
    \A sock \in Sockets : \A sid \in DOMAIN rooms :
       (/\ tasks = <<>>
        /\ reqs = <<>>
        /\ readyState[sock] = "OPEN"
        /\ sock \in rooms[sid]
        /\ sessions[sid].status = "LIVE") =>
          \E i \in Positions(sock) :
             /\ inbox[sock][i].sessionId = sid
             /\ \/ inbox[sock][i].type = "SESSION_STARTED"
                \/ /\ inbox[sock][i].type = "SUBSCRIBED"
                   /\ inbox[sock][i].data.status = "LIVE"

\* C32: commands of one connection take effect in the order their frames
\* arrived: when a connection has sent SUBSCRIBE for X and then SUBSCRIBE for
\* Y and both have completed, it is a member of room Y only and the last
\* SUBSCRIBED it was sent is the one for Y.
LastSubscribeWins ==
    \A j, k \in DOMAIN frames :
       (/\ j < k
        /\ frames[j].sock = frames[k].sock
        /\ frames[j].type = "SUBSCRIBE"
        /\ frames[k].type = "SUBSCRIBE"
        /\ frames[j].sessionId # frames[k].sessionId
        /\ \A n \in DOMAIN frames : frames[n].sock = frames[k].sock => n <= k
        /\ \A n \in DOMAIN tasks : tasks[n].sock # frames[k].sock
        /\ readyState[frames[k].sock] = "OPEN") =>
          LET sock == frames[k].sock
              subs == {i \in Positions(sock) : inbox[sock][i].type = "SUBSCRIBED"}
          IN  /\ \A sid \in DOMAIN rooms :
                    sock \in rooms[sid] <=> sid = frames[k].sessionId
              /\ frames[k].sessionId \in DOMAIN rooms
              /\ subs # {}
              /\ \A i \in subs : (\A h \in subs : h <= i) =>
                                   inbox[sock][i].sessionId = frames[k].sessionId

\* the strokes of slide pid a viewer holds after it has applied the events in
\* the order received: STROKE adds its stroke, CLEAR_SLIDE empties the slide
RECURSIVE applyEvents(_, _, _)
applyEvents(held, events, pid) ==
    IF events = <<>> THEN held
    ELSE LET e == Head(events)
             next == IF e.type = "STROKE" /\ e.data.stroke.slideId = pid
                     THEN held \cup {e.data.stroke.id}
                     ELSE IF e.type = "CLEAR_SLIDE" /\ e.data.slideId = pid
                          THEN {}
                          ELSE held
         IN  applyEvents(next, Tail(events), pid)

\* the ids of the strokes in s that lie on slide pid
StrokeIdsOn(s, pid) == {s[i].id : i \in {n \in DOMAIN s : s[n].slideId = pid}}

\* C33: viewer state converges with the store: the admin a stays subscribed
\* to s1 from the start, holding the strokes stored then; once nothing is in
\* flight, the strokes of slide p1 it holds after applying the STROKE and
\* CLEAR_SLIDE events in received order are exactly the strokes stored for p1.
ViewerConverges ==
    (tasks = <<>> /\ "a" \in rooms["s1"] /\ readyState["a"] = "OPEN") =>
       applyEvents(StrokeIdsOn(stagedStrokes, "p1"), inbox["a"], "p1")
          = StrokeIdsOn(strokes, "p1")

\* C34: chat disable takes effect for what follows it: after a subscriber has
\* received CHAT_ENABLE with enabled = FALSE for a session it receives no
\* CHAT_MESSAGE for that session before a CHAT_ENABLE with enabled = TRUE.
NoChatAfterDisable ==
    \A sock \in Sockets : \A i, j \in Positions(sock) :
       (/\ i < j
        /\ inbox[sock][i].type = "CHAT_ENABLE"
        /\ inbox[sock][i].data.enabled = FALSE
        /\ inbox[sock][j].type = "CHAT_MESSAGE"
        /\ inbox[sock][j].sessionId = inbox[sock][i].sessionId) =>
          \E h \in Positions(sock) :
             /\ i < h
             /\ h < j
             /\ inbox[sock][h].type = "CHAT_ENABLE"
             /\ inbox[sock][h].sessionId = inbox[sock][i].sessionId
             /\ inbox[sock][h].data.enabled = TRUE

\* every connection with the admin role has a session, is the owner of that
\* session and, while it is registered, is a member of that session's room
AdminOwnsRoom ==
    \A sock \in Sockets :
       meta[sock].isAdmin =>
          /\ meta[sock].sessionId \in DOMAIN sessions
          /\ sessions[meta[sock].sessionId].ownerId = meta[sock].userId
          /\ sock \in clients =>
                /\ meta[sock].sessionId \in DOMAIN rooms
                /\ sock \in rooms[meta[sock].sessionId]

\* a plain SUBSCRIBE that joins its session leaves the connection a viewer
PlainJoinIsViewer ==
    \A k \in DOMAIN tasks :
       (/\ SubscribeJoin(k)
        /\ tasks[k].type = "SUBSCRIBE"
        /\ meta'[tasks[k].sock].sessionId = tasks[k].sessionId
        /\ tasks[k].session # Null) =>
          ~meta'[tasks[k].sock].isAdmin

\* C35: in every state a connection whose role is admin is subscribed to a
\* session and is that session's owner, and the role is never held for a
\* session joined with plain SUBSCRIBE: such a join leaves the role viewer.
AdminIsOwner == []AdminOwnsRoom /\ [][PlainJoinIsViewer]_vars

\* the owner a is admin of s1 and the stranger b, whose SUBSCRIBE_ADMIN for
\* s1 has completed, is not
OwnerAdminStrangerRefused ==
    /\ tasks = <<>>
    /\ meta["a"].isAdmin
    /\ "s1" \in DOMAIN rooms
    /\ "a" \in rooms["s1"]
    /\ ~meta["b"].isAdmin
    /\ \E k \in DOMAIN frames :
          /\ frames[k].sock = "b"
          /\ frames[k].type = "SUBSCRIBE_ADMIN"
          /\ frames[k].sessionId = "s1"

\* C36: every stroke written by the gateway was authored by the owner of the
\* stroke's session and lies on a slide of that same session, whatever the
\* interleaving of STROKE commands with re-subscriptions and closes.
StrokesByOwnerOnOwnSlide ==
    \A i \in DOMAIN strokes :
       strokes[i].cmd # 0 =>
          /\ strokes[i].sessionId \in DOMAIN sessions
          /\ strokes[i].createdById = sessions[strokes[i].sessionId].ownerId
          /\ strokes[i].slideId \in DOMAIN slides
          /\ slides[strokes[i].slideId].sessionId = strokes[i].sessionId

\* a stroke of a has been written for s1 by a handler still in flight while a
\* has moved on to s2 as a viewer
StrokeWrittenAfterMove ==
    /\ meta["a"].sessionId = "s2"
    /\ ~meta["a"].isAdmin
    /\ \E k \in DOMAIN tasks :
          /\ tasks[k].sock = "a"
          /\ tasks[k].pc = "stroke_created"
          /\ tasks[k].created # Null
          /\ \E i \in DOMAIN strokes : strokes[i].cmd = k

\* the pairs of positions at which two sockets hold the same frame
Shared(s1, s2) ==
    {p \in Positions(s1) \X Positions(s2) : inbox[s1][p[1]] = inbox[s2][p[2]]}

\* C37: all connections that stay subscribed to a session receive its
\* broadcast events in the same relative order: two frames that two members
\* of a room both hold appear in the same order in both.
SameOrderForAll ==
    \A sid \in DOMAIN rooms : \A s1, s2 \in rooms[sid] :
       \A p, q \in Shared(s1, s2) :
          p[1] < q[1] => p[2] < q[2]

\* a and b are both in room s1 and hold two broadcast frames in common
TwoBroadcastsShared ==
    /\ "s1" \in DOMAIN rooms
    /\ {"a", "b"} \subseteq rooms["s1"]
    /\ \E p, q \in Shared("a", "b") : p[1] < q[1]

\* is the frame a chat broadcast of session s1
IsChatMessage(m) == m.type = "CHAT_MESSAGE" /\ m.sessionId = "s1"

\* the chat messages of s1 a socket was sent, in the order received
ChatsHeard(sock) ==
    LET heard == SelectSeq(inbox[sock], IsChatMessage)
    IN  [i \in DOMAIN heard |-> heard[i].data]

\* C38: the chat history of a session lists its messages in the order their
\* CHAT_MESSAGE broadcasts were delivered: it is the tail of what the admin
\* a, in room s1 throughout, was sent for s1.
HistoryInBroadcastOrder ==
    LET h    == IF "s1" \in DOMAIN chatMessages THEN chatMessages["s1"] ELSE <<>>
        sent == ChatsHeard("a")
    IN  /\ Len(h) <= Len(sent)
        /\ h = SubSeq(sent, Len(sent) - Len(h) + 1, Len(sent))

\* the history of s1 holds two messages of different authors, one after the
\* other
TwoAuthorsInHistory ==
    /\ "s1" \in DOMAIN chatMessages
    /\ Len(chatMessages["s1"]) >= 2
    /\ chatMessages["s1"][1].userId # chatMessages["s1"][2].userId

\* no SUBSCRIBED frame answers a frame that names a session the store lacks
NoSnapshotOfMissing ==
    \A sock \in Sockets : \A i \in Positions(sock) :
       inbox[sock][i].type = "SUBSCRIBED" =>
          frames[inbox[sock][i].cmd].sessionId \in DOMAIN sessions

\* the steps of a subscribe that names a session the store lacks: the read
\* changes nothing, the step after it ends the handler with one ERROR to the
\* sender and leaves every room and role as it was, and no further step exists
MissingSubscribeOnlyErrors ==
    \A k \in DOMAIN tasks :
       (/\ tasks[k].type \in {"SUBSCRIBE", "SUBSCRIBE_ADMIN"}
        /\ tasks[k].sessionId \notin DOMAIN sessions) =>
          LET sock == tasks[k].sock IN
          /\ DbSubscribeFindSession(k) => UNCHANGED <<meta, rooms, clients, inbox>>
          /\ SubscribeJoin(k) =>
                /\ UNCHANGED <<meta, rooms, clients>>
                /\ k \notin DOMAIN tasks'
                /\ Len(inbox'[sock]) = Len(inbox[sock]) + 1
                /\ SubSeq(inbox'[sock], 1, Len(inbox[sock])) = inbox[sock]
                /\ inbox'[sock][Len(inbox'[sock])].type = "ERROR"
                /\ inbox'[sock][Len(inbox'[sock])].cmd = k
                /\ \A c \in Sockets \ {sock} : inbox'[c] = inbox[c]
          /\ ~DbSubscribeFindStrokes(k)
          /\ ~SubscribeReply(k)

\* C39: a SUBSCRIBE or SUBSCRIBE_ADMIN that fails because its session does
\* not exist leaves the connection's room membership and role unchanged and
\* sends the sender only an ERROR, never a SUBSCRIBED.
MissingSessionChangesNothing ==
    []NoSnapshotOfMissing /\ [][MissingSubscribeOnlyErrors]_vars

\* a's SUBSCRIBE_ADMIN for s0 has completed with an ERROR and a is still the
\* admin of s1, in its room
RefusedAndStillAdmin ==
    /\ meta["a"].sessionId = "s1"
    /\ meta["a"].isAdmin
    /\ "a" \in rooms["s1"]
    /\ \E k \in DOMAIN frames :
          /\ frames[k].sock = "a"
          /\ frames[k].type = "SUBSCRIBE_ADMIN"
          /\ frames[k].sessionId = "s0"
          /\ k \notin DOMAIN tasks
          /\ \E i \in Positions("a") :
                inbox["a"][i].type = "ERROR" /\ inbox["a"][i].cmd = k

\* a step that sends nothing to a socket that is not open
ClosedSocketSentNothing ==
    \A sock \in Sockets :
       readyState[sock] # "OPEN" => inbox'[sock] = inbox[sock]

\* the next step of the handler of frame k, whichever command it serves
HandlerStep(k) ==
    \/ DbSubscribeFindSession(k) \/ SubscribeJoin(k)
    \/ DbSubscribeFindStrokes(k) \/ SubscribeReply(k)
    \/ DbStrokeFindSlide(k) \/ StrokeCheck(k)
    \/ DbStrokeCreate(k) \/ StrokeBroadcast(k)
    \/ DbClearFindSlide(k) \/ ClearCheck(k)
    \/ DbClearDelete(k) \/ ClearBroadcast(k)
    \/ DbChatFindSession(k) \/ ChatDeliver(k)
    \/ DbToggleFindSession(k) \/ ToggleCheck(k)
    \/ DbToggleUpdate(k) \/ ToggleBroadcast(k)

\* a handler whose socket has closed is not stuck: its next step can be taken
ClosedSenderProceeds ==
    \A k \in DOMAIN tasks :
       readyState[tasks[k].sock] # "OPEN" => ENABLED HandlerStep(k)

\* C40: no event is ever sent on a socket that is not open: a reply or
\* broadcast of a command that completes after the socket closed skips that
\* socket, and the command still runs to its end.
NothingSentWhenClosed ==
    []ClosedSenderProceeds /\ [][ClosedSocketSentNothing]_vars

\* a closed after a SUBSCRIBE of its own was taken up; that handler has run
\* to its end, joining a to room s1, and a was sent no frame for it
ReplySkippedAfterClose ==
    /\ readyState["a"] = "CLOSED"
    /\ "s1" \in DOMAIN rooms
    /\ "a" \in rooms["s1"]
    /\ \E k \in DOMAIN frames :
          /\ frames[k].sock = "a"
          /\ frames[k].type \in {"SUBSCRIBE", "SUBSCRIBE_ADMIN"}
          /\ k \notin DOMAIN tasks
          /\ \A i \in Positions("a") : inbox["a"][i].cmd # k

====
